---- MODULE Spec2Model ----
(***************************************************************************)
(* Model of the traffic interception layer of kubiks-inc/nextjs-otel:      *)
(* header redaction and claim extraction (src/src/http.ts,                 *)
(* src/src/enhanced-undici.ts), the request/response stream taps and the   *)
(* BetterHttp hooks (src/src/http.ts), the undici hooks                    *)
(* (src/src/enhanced-undici.ts) and the global fetch interceptor           *)
(* (src/src/fetch-interceptor.ts).                                         *)
(*                                                                         *)
(* JavaScript strings are TLA+ strings; a character is a string of length  *)
(* one.  Header maps are sequences of [name, value] records in insertion   *)
(* order with pairwise distinct names; span attributes are functions from  *)
(* attribute keys to values.                                               *)
(***************************************************************************)
EXTENDS Integers, Sequences, FiniteSets, TLC

(***************************************************************************)
(* Bounds of the model.                                                    *)
(***************************************************************************)
\* largest number of headers in a header map given to the redactor
MaxHeaders == 2
\* largest number of write() calls on one outgoing request
MaxWrites == 2
\* largest number of 'data' events on one response stream
MaxRespChunks == 2
MaxSetupCalls == 2
MaxCalls == 2
MaxElements == 3
MaxDepth == 4
MaxCount == 3

(***************************************************************************)
(* JavaScript string primitives used by the source.                        *)
(***************************************************************************)
Char(s, i) == SubSeq(s, i, i)

Digits == "0123456789"

\* the position of each character of an alphabet of distinct characters
PositionTable(alphabet) ==
    [c \in { Char(alphabet, i) : i \in 1..Len(alphabet) } |->
        CHOOSE i \in 1..Len(alphabet) : Char(alphabet, i) = c]

\* position of character c in the alphabet of a position table, 0 when absent
IndexIn(c, table) == IF c \in DOMAIN table THEN table[c] ELSE 0

UpperIndex == PositionTable("ABCDEFGHIJKLMNOPQRSTUVWXYZ")
DigitIndex == PositionTable(Digits)

\* String.prototype.indexOf(c) + 1: the first position of the non-empty
\* string c in s, 0 when absent
indexOf(s, c) ==
    LET At(i) == SubSeq(s, i, i + Len(c) - 1) = c
        last == Len(s) - Len(c) + 1
    IN  IF \E i \in 1..last : At(i)
        THEN CHOOSE i \in 1..last : At(i) /\ \A j \in 1..(i - 1) : ~At(j)
        ELSE 0

LowerChar(c) ==
    LET i == IndexIn(c, UpperIndex)
    IN  IF i = 0 THEN c ELSE Char("abcdefghijklmnopqrstuvwxyz", i)

\* the concatenation of a sequence of strings (Array.prototype.join(''))
RECURSIVE Concat(_)
Concat(ss) ==
    IF Len(ss) = 0 THEN ""
    ELSE IF Len(ss) = 1 THEN ss[1]
    ELSE LET m == Len(ss) \div 2
         IN  Concat(SubSeq(ss, 1, m)) \o Concat(SubSeq(ss, m + 1, Len(ss)))

toLowerCase(s) == Concat([i \in 1..Len(s) |-> LowerChar(Char(s, i))])

\* String.prototype.includes
includes(s, frag) ==
    \E i \in 1..(Len(s) - Len(frag) + 1) : SubSeq(s, i, i + Len(frag) - 1) = frag

\* s.startsWith(prefix)
StartsWith(s, prefix) ==
    Len(s) >= Len(prefix) /\ SubSeq(s, 1, Len(prefix)) = prefix

\* String.prototype.split(sep) for a non-empty separator
RECURSIVE split(_, _)
split(s, sep) ==
    LET i == indexOf(s, sep)
    IN  IF i = 0 THEN <<s>>
        ELSE <<SubSeq(s, 1, i - 1)>> \o split(SubSeq(s, i + Len(sep), Len(s)), sep)

\* String.prototype.replace(/c/g, d) for single characters
replaceAll(s, c, d) ==
    Concat([i \in 1..Len(s) |-> IF Char(s, i) = c THEN d ELSE Char(s, i)])

\* JSON.stringify of a string: quoted, with '"' and '\' escaped
Quote(text) ==
    "\"" \o Concat([i \in 1..Len(text) |->
                IF Char(text, i) \in {"\"", "\\"} THEN "\\" \o Char(text, i)
                ELSE Char(text, i)]) \o "\""

\* String.prototype.repeat
repeat(c, n) == Concat([i \in 1..n |-> c])

\* String(n) for a natural number
RECURSIVE NatToStr(_)
NatToStr(n) ==
    IF n < 10 THEN Char(Digits, n + 1)
    ELSE NatToStr(n \div 10) \o Char(Digits, (n % 10) + 1)

IsWhitespace(c) == c \in {" ", "\t", "\n", "\r", "\f"}

(***************************************************************************)
(* Buffer.from(text, 'base64').toString('utf8'): characters outside the    *)
(* alphabet are skipped, decoding stops at the first '=', every complete   *)
(* group of 8 bits is one byte.  Bytes 32..126 are their ASCII character;  *)
(* a byte of 127 or more decodes to the replacement character (written     *)
(* "?": legal inside a JSON string, illegal outside), tab, line feed and   *)
(* carriage return to themselves, any other control byte to "\f".  The     *)
(* grave accent (byte 96) cannot be written in a TLA+ string and is        *)
(* written "?" as well; no input of the model decodes to it.               *)
(***************************************************************************)
Base64Index ==
    PositionTable("ABCDEFGHIJKLMNOPQRSTUVWXYZabcdefghijklmnopqrstuvwxyz0123456789+/")
Ascii == " !\"#$%&'()*+,-./0123456789:;<=>?@ABCDEFGHIJKLMNOPQRSTUVWXYZ[\\]^_?abcdefghijklmnopqrstuvwxyz{|}~"

\* the 6-bit values of the characters before the first '='
Sextets(s) ==
    LET pad == indexOf(s, "=")
        stop == IF pad = 0 THEN Len(s) ELSE pad - 1
        vals == [i \in 1..stop |-> IndexIn(Char(s, i), Base64Index)]
        valid == SelectSeq(vals, LAMBDA v : v # 0)
    IN  [i \in 1..Len(valid) |-> valid[i] - 1]

\* byte k of the bit string made of the sextets q
BytesOf(q) ==
    [k \in 1..((Len(q) * 6) \div 8) |->
        LET j == ((8 * (k - 1)) \div 6) + 1
            r == (8 * (k - 1)) % 6
        IN  IF r = 0 THEN q[j] * 4 + (q[j + 1] \div 16)
            ELSE IF r = 2 THEN (q[j] % 16) * 16 + (q[j + 1] \div 4)
            ELSE (q[j] % 4) * 64 + q[j + 1]]

ByteToChar(b) ==
    IF b >= 32 /\ b <= 126 THEN Char(Ascii, b - 31)
    ELSE IF b >= 127 THEN "?"
    ELSE IF b = 9 THEN "\t"
    ELSE IF b = 10 THEN "\n"
    ELSE IF b = 13 THEN "\r"
    ELSE "\f"

BytesToString(bs) == Concat([i \in 1..Len(bs) |-> ByteToChar(bs[i])])

Base64Decode(text) == BytesToString(BytesOf(Sextets(text)))

(***************************************************************************)
(* JSON.parse and JSON.stringify, for the JSON texts the model uses:       *)
(* objects, arrays, strings without escapes, integers, true, false, null.  *)
(* A parsed value is a record: kind, str = String(value) for a scalar,     *)
(* entries = Object.entries(value) (key, kind, str and canon of each       *)
(* member), canon = JSON.stringify(value), next = the index after it.      *)
(***************************************************************************)
JsonFail == [ok |-> FALSE, next |-> 0, kind |-> "", str |-> "",
             entries |-> <<>>, canon |-> ""]
JsonVal(next, kind, str, entries, canon) ==
    [ok |-> TRUE, next |-> next, kind |-> kind, str |-> str,
     entries |-> entries, canon |-> canon]

RECURSIVE SkipWs(_, _)
SkipWs(s, i) ==
    IF i <= Len(s) /\ Char(s, i) \in {" ", "\t", "\n", "\r"}
    THEN SkipWs(s, i + 1) ELSE i

RECURSIVE DigitsEnd(_, _)
DigitsEnd(s, i) ==
    IF i <= Len(s) /\ IndexIn(Char(s, i), DigitIndex) # 0
    THEN DigitsEnd(s, i + 1) ELSE i

ParseString(s, i) ==
    LET rest == SubSeq(s, i + 1, Len(s))
        q == indexOf(rest, "\"")
        body == SubSeq(rest, 1, q - 1)
    IN  IF \/ q = 0
           \/ \E k \in 1..Len(body) : Char(body, k) \in {"\\", "\t", "\n", "\r", "\f"}
        THEN JsonFail
        ELSE JsonVal(i + q + 1, "string", body, <<>>, "\"" \o body \o "\"")

ParseNumber(s, i) ==
    LET d == IF Char(s, i) = "-" THEN i + 1 ELSE i
        e == DigitsEnd(s, d)
        text == SubSeq(s, i, e - 1)
    IN  IF e = d \/ (e > d + 1 /\ Char(s, d) = "0") THEN JsonFail
        ELSE JsonVal(e, "number", IF text = "-0" THEN "0" ELSE text, <<>>,
                     IF text = "-0" THEN "0" ELSE text)

ParseLiteral(s, i) ==
    LET rest == SubSeq(s, i, Len(s))
    IN  IF StartsWith(rest, "true") THEN JsonVal(i + 4, "boolean", "true", <<>>, "true")
        ELSE IF StartsWith(rest, "false") THEN JsonVal(i + 5, "boolean", "false", <<>>, "false")
        ELSE IF StartsWith(rest, "null") THEN JsonVal(i + 4, "null", "null", <<>>, "null")
        ELSE JsonFail

Entry(key, v) == [key |-> key, kind |-> v.kind, str |-> v.str, canon |-> v.canon]

\* obj[key] = value: an existing key keeps its position
Upsert(entries, e) ==
    IF \E k \in 1..Len(entries) : entries[k].key = e.key
    THEN [k \in 1..Len(entries) |-> IF entries[k].key = e.key THEN e ELSE entries[k]]
    ELSE Append(entries, e)

RECURSIVE JoinMembers(_, _)
JoinMembers(entries, withKeys) ==
    IF Len(entries) = 0 THEN ""
    ELSE (IF withKeys THEN "\"" \o entries[1].key \o "\":" ELSE "")
            \o entries[1].canon
            \o (IF Len(entries) > 1 THEN "," ELSE "")
            \o JoinMembers(Tail(entries), withKeys)

RECURSIVE ParseValue(_, _)
RECURSIVE ParseMembers(_, _, _)
RECURSIVE ParseElements(_, _, _)

\* after '{' or ',' of an object: i is the index of the next member's key
ParseMembers(s, i, acc) ==
    LET k == SkipWs(s, i)
    IN  IF k > Len(s) THEN JsonFail
        ELSE IF Char(s, k) = "}" /\ Len(acc) = 0 /\ Char(s, i - 1) = "{"
        THEN JsonVal(k + 1, "object", "", acc, "{}")
        ELSE IF Char(s, k) # "\"" THEN JsonFail
        ELSE LET key == ParseString(s, k)
             IN  IF ~key.ok THEN JsonFail
                 ELSE LET c == SkipWs(s, key.next)
                      IN  IF c > Len(s) \/ Char(s, c) # ":" THEN JsonFail
                          ELSE LET v == ParseValue(s, SkipWs(s, c + 1))
                               IN  IF ~v.ok THEN JsonFail
                                   ELSE LET n == SkipWs(s, v.next)
                                            acc2 == Upsert(acc, Entry(key.str, v))
                                        IN  IF n > Len(s) THEN JsonFail
                                            ELSE IF Char(s, n) = ","
                                            THEN ParseMembers(s, n + 1, acc2)
                                            ELSE IF Char(s, n) = "}"
                                            THEN JsonVal(n + 1, "object", "", acc2,
                                                     "{" \o JoinMembers(acc2, TRUE) \o "}")
                                            ELSE JsonFail

\* after '[' or ',' of an array: i is the index of the next element
ParseElements(s, i, acc) ==
    LET k == SkipWs(s, i)
    IN  IF k > Len(s) THEN JsonFail
        ELSE IF Char(s, k) = "]" /\ Len(acc) = 0 /\ Char(s, i - 1) = "["
        THEN JsonVal(k + 1, "array", "", acc, "[]")
        ELSE LET v == ParseValue(s, k)
             IN  IF ~v.ok THEN JsonFail
                 ELSE LET n == SkipWs(s, v.next)
                          acc2 == Append(acc, Entry(NatToStr(Len(acc)), v))
                      IN  IF n > Len(s) THEN JsonFail
                          ELSE IF Char(s, n) = ","
                          THEN ParseElements(s, n + 1, acc2)
                          ELSE IF Char(s, n) = "]"
                          THEN JsonVal(n + 1, "array", "", acc2,
                                   "[" \o JoinMembers(acc2, FALSE) \o "]")
                          ELSE JsonFail

ParseValue(s, i) ==
    IF i > Len(s) THEN JsonFail
    ELSE LET c == Char(s, i)
         IN  IF c = "{" THEN ParseMembers(s, i + 1, <<>>)
             ELSE IF c = "[" THEN ParseElements(s, i + 1, <<>>)
             ELSE IF c = "\"" THEN ParseString(s, i)
             ELSE IF c = "-" \/ IndexIn(c, DigitIndex) # 0 THEN ParseNumber(s, i)
             ELSE ParseLiteral(s, i)

\* JSON.parse(text); ok = FALSE stands for the SyntaxError it throws
JSONparse(text) ==
    LET v == ParseValue(text, SkipWs(text, 1))
    IN  IF v.ok /\ SkipWs(text, v.next) = Len(text) + 1 THEN v ELSE JsonFail

\* the members Object.entries lists: of an object or array its members, of a
\* string its characters, of a number or boolean none
RECURSIVE CharEntries(_, _)
CharEntries(str, i) ==
    IF i > Len(str) THEN <<>>
    ELSE <<[key |-> NatToStr(i - 1), kind |-> "string", str |-> Char(str, i),
            canon |-> "\"" \o Char(str, i) \o "\""]>> \o CharEntries(str, i + 1)

ObjectEntries(v) ==
    IF v.kind \in {"object", "array"} THEN v.entries
    ELSE IF v.kind = "string" THEN CharEntries(v.str, 1)
    ELSE <<>>

\* the truthiness of a parsed value: null, 0, "" and false are falsy
Truthy(v) ==
    /\ v.ok
    /\ v.kind # "null"
    /\ ~(v.kind = "number" /\ v.str = "0")
    /\ ~(v.kind = "string" /\ v.str = "")
    /\ ~(v.kind = "boolean" /\ v.str = "false")

(***************************************************************************)
(* Redaction and claim extraction: src/src/http.ts 271-338 (the same code  *)
(* is in src/src/enhanced-undici.ts 7-74).                                 *)
(***************************************************************************)
SENSITIVE_HEADERS ==
    <<"authorization", "cookie", "set-cookie", "x-api-key", "x-auth-token",
      "x-access-token", "x-kubiks-key", "bearer", "proxy-authorization",
      "www-authenticate", "proxy-authenticate">>

REDACTED == "[REDACTED]"

EmptyMap == [k \in {} |-> ""]
MapSet(m, key, value) ==
    [k \in DOMAIN m \cup {key} |-> IF k = key THEN value ELSE m[k]]
\* Object.assign(a, b) / span.setAttributes(b)
MapMerge(a, b) ==
    [k \in DOMAIN a \cup DOMAIN b |-> IF k \in DOMAIN b THEN b[k] ELSE a[k]]

RECURSIVE SkipWhitespace(_, _)
SkipWhitespace(s, i) ==
    IF i <= Len(s) /\ IsWhitespace(Char(s, i)) THEN SkipWhitespace(s, i + 1) ELSE i

\* token.replace(/^Bearer\s+/i, '')
StripBearer(token) ==
    IF /\ Len(token) >= 7
       /\ toLowerCase(SubSeq(token, 1, 6)) = "bearer"
       /\ IsWhitespace(Char(token, 7))
    THEN SubSeq(token, SkipWhitespace(token, 7), Len(token))
    ELSE token

\* parseJWTClaims accepting a token of three or more segments
parseJWTClaims_AtLeastThree(token) ==
    LET parts == split(StripBearer(token), ".")
    IN  IF Len(parts) < 3 THEN JsonFail
        ELSE JSONparse(Base64Decode(
                replaceAll(replaceAll(
                    parts[2] \o repeat("=", (4 - (Len(parts[2]) % 4)) % 4),
                    "-", "+"), "_", "/")))

\* the result null (also of the catch) is JsonFail
parseJWTClaims(token) ==
    LET cleanToken == StripBearer(token)
        parts == split(cleanToken, ".")
    IN  IF Len(parts) # 3 THEN JsonFail
        ELSE LET payload == parts[2]
                 padded == payload \o repeat("=", (4 - (Len(payload) % 4)) % 4)
                 decoded == Base64Decode(
                                replaceAll(replaceAll(padded, "-", "+"), "_", "/"))
             IN  JSONparse(decoded)

\* IsSensitive comparing the name as written, not lower-cased
IsSensitive_CaseSensitive(key) ==
    \E j \in 1..Len(SENSITIVE_HEADERS) : includes(key, SENSITIVE_HEADERS[j])

\* SENSITIVE_HEADERS.some(sensitive => lowerKey.includes(sensitive))
IsSensitive(key) ==
    LET lowerKey == toLowerCase(key)
    IN  \E j \in 1..Len(SENSITIVE_HEADERS) :
            includes(lowerKey, SENSITIVE_HEADERS[j])

\* the loop over Object.entries(claims): scalar claims become token.<key>
RECURSIVE AddClaims(_, _)
AddClaims(jwtClaims, entries) ==
    IF Len(entries) = 0 THEN jwtClaims
    ELSE AddClaims(
            IF entries[1].kind \in {"string", "number", "boolean"}
            THEN MapSet(jwtClaims, "token." \o entries[1].key, entries[1].str)
            ELSE jwtClaims,
            Tail(entries))

\* the claims the loop over the headers has collected after headers 1..n
RECURSIVE CollectClaims(_, _)
CollectClaims(headers, n) ==
    IF n = 0 THEN EmptyMap
    ELSE LET before == CollectClaims(headers, n - 1)
             h == headers[n]
         IN  IF /\ IsSensitive(h.name)
                /\ includes(toLowerCase(h.name), "authorization")
                /\ h.value # ""
             THEN LET claims == parseJWTClaims(h.value)
                  IN  IF Truthy(claims)
                      THEN AddClaims(before, ObjectEntries(claims))
                      ELSE before
             ELSE before

redactSensitiveHeaders(headers) ==
    [redactedHeaders |->
        [i \in 1..Len(headers) |->
            IF IsSensitive(headers[i].name)
            THEN [name |-> headers[i].name, value |-> REDACTED]
            ELSE headers[i]],
     jwtClaims |-> CollectClaims(headers, Len(headers))]

\* flatten({ <prefix>: { headers } }): one attribute per header
RECURSIVE flattenHeaders(_, _)
flattenHeaders(prefix, headers) ==
    IF Len(headers) = 0 THEN EmptyMap
    ELSE MapSet(flattenHeaders(prefix, SubSeq(headers, 1, Len(headers) - 1)),
                prefix \o headers[Len(headers)].name,
                headers[Len(headers)].value)

(***************************************************************************)
(* Body decoding: src/src/http.ts 542-560.  A decoded body is a record:    *)
(* isString (typeof data === 'string'), text (the string) and json         *)
(* (JSON.stringify(data)).                                                 *)
(***************************************************************************)
TextValue(text) == [isString |-> TRUE, text |-> text, json |-> Quote(text)]
ParsedValue(v) == [isString |-> v.kind = "string", text |-> v.str, json |-> v.canon]
StructuredValue(json) == [isString |-> FALSE, text |-> "", json |-> json]

\* typeof data === 'string' ? data : JSON.stringify(data)
AttributeText(data) == IF data.isString THEN data.text ELSE data.json

\* headers[name]: the value of the header with exactly that name, "" when absent
HeaderValue(headers, name) ==
    IF \E i \in 1..Len(headers) : headers[i].name = name
    THEN headers[CHOOSE i \in 1..Len(headers) : headers[i].name = name].value
    ELSE ""

\* the key=value pairs of a urlencoded body, in order (no escapes in the model)
FormPairs(body) ==
    LET parts == SelectSeq(split(body, "&"), LAMBDA part : part # "")
    IN  [i \in 1..Len(parts) |->
            LET eq == indexOf(parts[i], "=")
            IN  IF eq = 0 THEN [key |-> parts[i], value |-> ""]
                ELSE [key |-> SubSeq(parts[i], 1, eq - 1),
                      value |-> SubSeq(parts[i], eq + 1, Len(parts[i]))]]

\* querystring.parse: a repeated key collects its values in an array
RECURSIVE qsEntries(_, _)
qsEntries(pairs, n) ==
    IF n = 0 THEN <<>>
    ELSE LET before == qsEntries(pairs, n - 1)
             p == pairs[n]
             quoted == Quote(p.value)
         IN  IF \E k \in 1..Len(before) : before[k].key = p.key
             THEN [k \in 1..Len(before) |->
                    IF before[k].key # p.key THEN before[k]
                    ELSE [key |-> p.key, many |-> TRUE,
                          canon |-> before[k].canon \o "," \o quoted]]
             ELSE Append(before, [key |-> p.key, many |-> FALSE, canon |-> quoted])

qsParse(body) ==
    LET es == qsEntries(FormPairs(body), Len(FormPairs(body)))
    IN  StructuredValue("{" \o JoinMembers(
            [k \in 1..Len(es) |->
                [key |-> es[k].key,
                 canon |-> IF es[k].many THEN "[" \o es[k].canon \o "]"
                           ELSE es[k].canon]], TRUE) \o "}")

\* JSON.parse with an empty string in place of the text it could not parse
ValueOrText_Empty(v, text) == IF v.ok THEN ParsedValue(v) ELSE TextValue("")

\* the parsed value, or the raw text when JSON.parse threw
ValueOrText(v, text) == IF v.ok THEN ParsedValue(v) ELSE TextValue(text)

\* try { return JSON.parse(text) } catch { return text }
ParseOrText(text) == ValueOrText(JSONparse(text), text)

_parseBodySafe(body, headers) ==
    LET contentType == HeaderValue(headers, "content-type")
    IN  IF contentType = "" THEN TextValue(body)
        ELSE IF \/ includes(contentType, "application/json")
                \/ includes(contentType, "application/x-amz-json")
        THEN ParseOrText(body)
        ELSE IF includes(contentType, "application/x-www-form-urlencoded")
        THEN qsParse(body)
        ELSE TextValue(body)

ignoredHosts == <<"localhost", "otlp.kubiks.ai">>

\* !ignoredHosts.find(ignoredHost => host.includes(ignoredHost))
shouldCaptureBody(host) ==
    ~\E i \in 1..Len(ignoredHosts) : includes(host, ignoredHosts[i])

(***************************************************************************)
(* Inputs of the redactor.  Every header name is listed with whether its   *)
(* lower-cased form contains a sensitive fragment, and every credential    *)
(* with its shape and the scalar claims of its payload, both written down  *)
(* by hand: the properties compare the code's result with these.           *)
(***************************************************************************)
HeaderNames ==
    { [name |-> "Authorization",       sensitive |-> TRUE,  auth |-> TRUE],
      [name |-> "AUTHORIZATION",       sensitive |-> TRUE,  auth |-> TRUE],
      [name |-> "proxy-authorization", sensitive |-> TRUE,  auth |-> TRUE],
      [name |-> "authorization",       sensitive |-> TRUE,  auth |-> TRUE],
      [name |-> "Set-Cookie",          sensitive |-> TRUE,  auth |-> FALSE],
      [name |-> "set-cookie",          sensitive |-> TRUE,  auth |-> FALSE],
      [name |-> "X-Api-Key",           sensitive |-> TRUE,  auth |-> FALSE],
      [name |-> "x-api-key",           sensitive |-> TRUE,  auth |-> FALSE],
      [name |-> "x-my-bearer-id",      sensitive |-> TRUE,  auth |-> FALSE],
      [name |-> "x-author",            sensitive |-> FALSE, auth |-> FALSE],
      [name |-> "content-type",        sensitive |-> FALSE, auth |-> FALSE],
      [name |-> "Content-Type",        sensitive |-> FALSE, auth |-> FALSE],
      [name |-> "content-length",      sensitive |-> FALSE, auth |-> FALSE],
      [name |-> "accept",              sensitive |-> FALSE, auth |-> FALSE] }

NameInfo(name) == CHOOSE e \in HeaderNames : e.name = name

\* {"sub":"u1"}
TokenSub == "Bearer aaa.eyJzdWIiOiJ1MSJ9.bbb"
\* {"sub":"u2","n":7,"ok":true,"o":{"x":1},"l":[1],"z":null}
TokenMixed == "aaa.eyJzdWIiOiJ1MiIsIm4iOjcsIm9rIjp0cnVlLCJvIjp7IngiOjF9LCJsIjpbMV0sInoiOm51bGx9.sig"
\* {"q":"<<???>>","ad":false}: the payload uses both URL-safe characters
\* and lacks one padding character
TokenUrlSafe == "bearer  h.eyJxIjoiPDw_Pz8-PiIsImFkIjpmYWxzZX0.s"

Credentials ==
    { [text |-> TokenSub,     shape |-> "jwt", claims |-> ("token.sub" :> "u1")],
      [text |-> TokenMixed,   shape |-> "jwt",
       claims |-> ("token.sub" :> "u2" @@ "token.n" :> "7" @@ "token.ok" :> "true")],
      [text |-> TokenUrlSafe, shape |-> "jwt",
       claims |-> ("token.q" :> "<<???>>" @@ "token.ad" :> "false")],
      [text |-> "Bearer aaa.bbb",                 shape |-> "malformed", claims |-> EmptyMap],
      [text |-> "Bearer a.eyJzdWIiOiJ1MSJ9.c.d",  shape |-> "malformed", claims |-> EmptyMap],
      [text |-> "Bearer aaa.eyJzdWIiOiJ1MSI.bbb", shape |-> "malformed", claims |-> EmptyMap],
      [text |-> "Bearer aaa.abcd.bbb",            shape |-> "malformed", claims |-> EmptyMap],
      [text |-> "Basic dXNlcjpwYXNz",             shape |-> "other",     claims |-> EmptyMap],
      [text |-> "x.WzEsMl0.y",                    shape |-> "other",     claims |-> EmptyMap],
      [text |-> "",                               shape |-> "other",     claims |-> EmptyMap] }

CredentialInfo(text) == CHOOSE c \in Credentials : c.text = text

Header(name, value) == [name |-> name, value |-> value]

\* the headers the redactor is tried on
RedactorPool ==
    { Header(n, c.text) :
        n \in {"Authorization", "AUTHORIZATION", "proxy-authorization"},
        c \in Credentials }
    \cup
    { Header(n, TokenSub) :
        n \in {"Set-Cookie", "X-Api-Key", "x-my-bearer-id", "x-author", "content-type"} }

DistinctNames(hs) == \A i, j \in 1..Len(hs) : hs[i].name = hs[j].name => i = j

HeaderMaps(pool, n) ==
    { hs \in UNION { [1..k -> pool] : k \in 0..n } : DistinctNames(hs) }

(***************************************************************************)
(* State.                                                                  *)
(***************************************************************************)
VARIABLES
    rHeaders,   \* the header map given to redactSensitiveHeaders
    rResult,    \* its result, NoResult before the call
    adapter,    \* the adapter handling the call: "http", "undici" or "fetch"
    options,    \* the options the adapter was constructed with
    request,    \* the outgoing request as the adapter sees it
    response,   \* the response of the real call, NoResponse before it arrives
    fault,      \* the telemetry step that throws in this call, "none" if none
    span,       \* the span of the call: attributes, status, number of end() calls
    pc,         \* the position of the call
    reqTap,     \* getClientRequestBody: installed, chunks, bodies given to cb
    resTap,     \* getClientResponseBody: installed, chunks, 'data' events seen
    transport,  \* the calls made to the original write, end and fetch, in order
    doneCalls,  \* the number of calls of responseHook's continuation cb
    outcome,    \* what the caller of the intercepted fetch observes
    issued,     \* the calls the application made to request.write and end
    dInput,     \* the decoder applied, the body and the content type given
    dResult,    \* what the decoder returned, NoDecoded before the call
    setup,      \* globalThis.fetch, interceptorInstance and the registrations
    inflight,   \* the calls in flight at the same time, each with its taps
    lambda,     \* a Lambda invocation: its kind, event, result and what was extracted
    logging     \* a console call being handled: the call stack and the log exports

redactVars == <<rHeaders, rResult>>
fetchVars == <<outcome>>
callVars == <<adapter, options, request, response, fault, span, pc,
              reqTap, resTap, transport, doneCalls, outcome, issued>>
decodeVars == <<dInput, dResult>>
vars == <<rHeaders, rResult, adapter, options, request, response, fault, span, pc,
          reqTap, resTap, transport, doneCalls, outcome, issued,
          dInput, dResult, setup, inflight, lambda, logging>>

NoResult == [redactedHeaders |-> <<>>, jwtClaims |-> EmptyMap, done |-> FALSE]
NoResponse == [arrived |-> FALSE, headers |-> <<>>, url |-> ""]
NoSpan == [started |-> FALSE, attrs |-> EmptyMap, status |-> "UNSET",
           message |-> "", ended |-> 0]
NoTap == [installed |-> FALSE, chunks |-> <<>>, calls |-> <<>>, events |-> 0]
Pending == [kind |-> "pending"]
NoInput == [decoder |-> "none"]
NoDecoded == [done |-> FALSE]
NoSetup == [started |-> FALSE, calls |-> 0, fetch |-> 0,
            instance |-> [exists |-> FALSE, originalFetch |-> 0,
                          given |-> EmptyMap, options |-> EmptyMap],
            history |-> <<>>, held |-> <<>>, registered |-> <<>>]

\* no header map is being redacted, no call is made, no decoder is applied,
\* nothing is set up, no calls are in flight
RedactIdle == rHeaders = <<>> /\ rResult = NoResult
CallIdle ==
    /\ adapter = "none"
    /\ options = <<>>
    /\ request = <<>>
    /\ response = NoResponse
    /\ fault = "none"
    /\ span = NoSpan
    /\ pc = "idle"
    /\ reqTap = NoTap
    /\ resTap = NoTap
    /\ transport = <<>>
    /\ doneCalls = 0
    /\ outcome = Pending
    /\ issued = <<>>
DecodeIdle == dInput = NoInput /\ dResult = NoDecoded
SetupIdle == setup = NoSetup
ConcurrentIdle == inflight = <<>>
LambdaIdle == lambda = <<>>
LoggingIdle == logging = <<>>

(***************************************************************************)
(* SpecRedact: redactSensitiveHeaders applied to every header map of at    *)
(* most MaxHeaders headers of the pool.                                    *)
(***************************************************************************)
InitRedact ==
    /\ rHeaders \in HeaderMaps(RedactorPool, MaxHeaders)
    /\ rResult = NoResult
    /\ CallIdle
    /\ DecodeIdle
    /\ LambdaIdle
    /\ LoggingIdle
    /\ SetupIdle
    /\ ConcurrentIdle

Redact ==
    /\ ~rResult.done
    /\ rResult' = LET r == redactSensitiveHeaders(rHeaders)
                   IN  [redactedHeaders |-> r.redactedHeaders,
                        jwtClaims |-> r.jwtClaims, done |-> TRUE]
    /\ UNCHANGED rHeaders
    /\ UNCHANGED <<callVars, decodeVars, setup, inflight, lambda, logging>>

NextRedact == Redact

SpecRedact == InitRedact /\ [][NextRedact]_vars

(***************************************************************************)
(* Spec: one outbound call handled by one adapter.                         *)
(*                                                                         *)
(* The BetterHttp hooks and stream taps: src/src/http.ts 355-544.          *)
(***************************************************************************)
Plugin(name, matches, captureBody) ==
    [name |-> name, matches |-> matches, captureBody |-> captureBody]

\* the values of options.plugins, with shouldParseRequest(request) of each
PluginLists ==
    { <<>>,
      <<Plugin("vercel", FALSE, TRUE)>>,
      <<Plugin("vercel", FALSE, TRUE), Plugin("stripe", TRUE, TRUE)>>,
      <<Plugin("custom", TRUE, FALSE)>> }

\* options.plugins.find(plugin => plugin?.shouldParseRequest(request))
FindPlugin(plugins) ==
    IF \E i \in 1..Len(plugins) : plugins[i].matches
    THEN [found |-> TRUE,
          plugin |-> plugins[CHOOSE i \in 1..Len(plugins) :
                        /\ plugins[i].matches
                        /\ \A j \in 1..(i - 1) : ~plugins[j].matches]]
    ELSE [found |-> FALSE, plugin |-> Plugin("", FALSE, FALSE)]

\* the hosts of the calls, each with whether it is on the ignored-host list
Hosts ==
    { [name |-> "api.example.com", ignored |-> FALSE],
      [name |-> "localhost",       ignored |-> TRUE],
      [name |-> "otlp.kubiks.ai",  ignored |-> TRUE] }

HostInfo(name) == CHOOSE h \in Hosts : h.name = name

\* the outgoing requests: request.host and request.getHeaders() (lower-cased
\* by Node)
HttpRequests ==
    { [host |-> "api.example.com",
       headers |-> <<Header("authorization", TokenSub),
                     Header("content-type", "application/json")>>],
      [host |-> "localhost",
       headers |-> <<Header("x-api-key", "k1"),
                     Header("content-type", "text/plain")>>],
      [host |-> "otlp.kubiks.ai",
       headers |-> <<Header("x-kubiks-key", "k2"),
                     Header("content-type", "application/json")>>] }

\* response.headers of the responses
HttpResponseHeaders ==
    { <<Header("content-type", "application/json"), Header("set-cookie", "sid=1")>>,
      <<Header("content-type", "text/plain")>> }

\* the arguments of a call of write() or end(): the data, a string or a
\* Buffer of that text (end() may be given none: present = FALSE), the
\* encoding ("" when not given) and whether a callback is given; end(callback)
\* has the callback as its first argument (isFunction)
Chunk(isString, text) ==
    [present |-> TRUE, isString |-> isString, isFunction |-> FALSE, text |-> text,
     encoding |-> "", callback |-> FALSE]
RequestChunks ==
    { Chunk(TRUE, "{\"a\":1}"),
      [Chunk(TRUE, "x") EXCEPT !.encoding = "utf8", !.callback = TRUE],
      [Chunk(FALSE, "{\"b\":2}") EXCEPT !.callback = TRUE] }

\* what end() is given: data as for write, nothing, or the callback alone
EndArguments ==
    RequestChunks
        \cup { [Chunk(FALSE, "") EXCEPT !.present = FALSE],
               [Chunk(FALSE, "") EXCEPT !.isFunction = TRUE, !.callback = TRUE] }

\* return oldWrite(data) and return oldEnd(data): the arguments the tapped
\* write and end hand to the original
Forwarded(data) == [data EXCEPT !.encoding = "", !.callback = FALSE]
ResponseChunks == { "{\"ok\":true}", "no" }

Provenance(instrumentation) ==
    ("kubiks.otel.source" :> "otel-nextjs")
        @@ ("kubiks.otel.version" :> "1.0.11")
        @@ ("kubiks.otel.instrumentation" :> instrumentation)

\* span.setAttributes(attributes)
SetAttributes(sp, attributes) == [sp EXCEPT !.attrs = MapMerge(@, attributes)]

\* the attributes requestHook and responseHook set for the headers
RedactedAttributes(prefix, r) ==
    MapMerge(flattenHeaders(prefix, r.redactedHeaders), r.jwtClaims)

HeaderAttributes(prefix, headers) ==
    RedactedAttributes(prefix, redactSensitiveHeaders(headers))

\* the capture callback given to a tap: decode the body, set the attribute;
\* when fault = "setBodyAttribute" span.setAttribute throws
CaptureBody(sp, key, body, headers) ==
    IF fault = "setBodyAttribute" THEN sp
    ELSE SetAttributes(sp, key :> AttributeText(_parseBodySafe(body, headers)))

InitHttp ==
    /\ adapter = "http"
    /\ options \in [captureHeaders : BOOLEAN, captureBody : BOOLEAN,
                    plugins : PluginLists,
                    responseHook : {"none", "plain", "callsCb"}]
    /\ request \in HttpRequests
    /\ response = NoResponse
    /\ fault \in {"none", "setBodyAttribute"}
    /\ span = [NoSpan EXCEPT !.started = TRUE]
    /\ pc = "requestHook"
    /\ reqTap = NoTap
    /\ resTap = NoTap
    /\ transport = <<>>
    /\ doneCalls = 0
    /\ outcome = Pending
    /\ issued = <<>>

\* requestHook(span, request) for a ClientRequest
HttpRequestHook ==
    /\ adapter = "http"
    /\ pc = "requestHook"
    /\ LET found == FindPlugin(options.plugins)
           headers == request.headers
           named == IF found.found
                    THEN SetAttributes(SetAttributes(span, Provenance("better-http")),
                                       "http.plugin.name" :> found.plugin.name)
                    ELSE SetAttributes(span, Provenance("better-http"))
       IN  /\ span' = IF options.captureHeaders
                      THEN SetAttributes(named,
                               HeaderAttributes("request.headers.", headers))
                      ELSE named
           /\ reqTap' = [reqTap EXCEPT !.installed =
                            IF found.found THEN found.plugin.captureBody
                            ELSE options.captureBody /\ shouldCaptureBody(request.host)]
    /\ pc' = "writing"
    /\ UNCHANGED <<adapter, options, request, response, fault, resTap,
                   transport, doneCalls>>
    /\ UNCHANGED fetchVars
    /\ UNCHANGED <<redactVars, lambda, logging, decodeVars, setup, inflight, issued>>

\* request.write(data)
HttpWrite(data) ==
    /\ adapter = "http"
    /\ pc = "writing"
    /\ Len(transport) < MaxWrites
    /\ IF reqTap.installed
       THEN LET chunks == Append(reqTap.chunks, data.text)
                body == Concat(chunks)
            IN  IF Char(data.text, Len(data.text)) = "}"
                THEN /\ reqTap' = [reqTap EXCEPT !.chunks = chunks,
                                                 !.calls = Append(@, body)]
                     /\ span' = CaptureBody(span, "request.body", body, request.headers)
                ELSE /\ reqTap' = [reqTap EXCEPT !.chunks = chunks]
                     /\ UNCHANGED span
       ELSE UNCHANGED <<reqTap, span>>
    /\ issued' = Append(issued, [op |-> "write", data |-> data])
    /\ transport' = Append(transport,
            [op |-> "write",
             data |-> IF reqTap.installed THEN Forwarded(data) ELSE data])
    /\ UNCHANGED <<adapter, options, request, response, fault, pc, resTap, doneCalls>>
    /\ UNCHANGED fetchVars
    /\ UNCHANGED <<redactVars, lambda, logging, decodeVars, setup, inflight>>

\* request.end(data), request.end() and request.end(callback); Buffer.concat
\* throws for an array holding a function, inside the try of the tap
HttpEnd(data) ==
    /\ adapter = "http"
    /\ pc = "writing"
    /\ IF reqTap.installed
       THEN LET chunks == IF data.present /\ ~(data.isString /\ data.text = "")
                          THEN Append(reqTap.chunks, data.text)
                          ELSE reqTap.chunks
                body == Concat(chunks)
            IN  IF Len(chunks) > 0 /\ ~data.isFunction
                THEN /\ reqTap' = [reqTap EXCEPT !.chunks = chunks,
                                                 !.calls = Append(@, body)]
                     /\ span' = CaptureBody(span, "request.body", body, request.headers)
                ELSE /\ reqTap' = [reqTap EXCEPT !.chunks = chunks]
                     /\ UNCHANGED span
       ELSE UNCHANGED <<reqTap, span>>
    /\ issued' = Append(issued, [op |-> "end", data |-> data])
    /\ transport' = Append(transport,
            [op |-> "end",
             data |-> IF reqTap.installed THEN Forwarded(data) ELSE data])
    /\ pc' = "sent"
    /\ UNCHANGED <<adapter, options, request, response, fault, resTap, doneCalls>>
    /\ UNCHANGED fetchVars
    /\ UNCHANGED <<redactVars, lambda, logging, decodeVars, setup, inflight>>

\* responseHook(span, response, cb) for the IncomingMessage of the call; the
\* url of a client response is '' (Node sets it for server requests only).
\* options.responseHook is given cb as a third argument: a hook written for
\* it calls cb ("callsCb"), a plain two-argument hook does not ("plain")
HttpResponseHook(headers) ==
    /\ adapter = "http"
    /\ pc = "sent"
    /\ response' = [arrived |-> TRUE, headers |-> headers, url |-> ""]
    /\ span' = IF options.captureHeaders
               THEN SetAttributes(span, HeaderAttributes("response.headers.", headers))
               ELSE span
    /\ LET tapped == options.captureBody /\ shouldCaptureBody(response'.url)
       IN  /\ resTap' = [resTap EXCEPT !.installed = tapped]
           /\ doneCalls' = (IF tapped THEN 0 ELSE 1)
                              + (IF options.responseHook = "callsCb" THEN 1 ELSE 0)
    /\ pc' = "streaming"
    /\ UNCHANGED <<adapter, options, request, fault, reqTap, transport>>
    /\ UNCHANGED fetchVars
    /\ UNCHANGED <<redactVars, lambda, logging, decodeVars, setup, inflight, issued>>

\* a 'data' event of the response stream
HttpResponseData(chunk) ==
    /\ adapter = "http"
    /\ pc = "streaming"
    /\ resTap.events < MaxRespChunks
    /\ resTap' = [resTap EXCEPT !.events = @ + 1,
                                !.chunks = IF resTap.installed
                                           THEN Append(@, chunk) ELSE @]
    /\ UNCHANGED <<adapter, options, request, response, fault, span, pc,
                   reqTap, transport, doneCalls>>
    /\ UNCHANGED fetchVars
    /\ UNCHANGED <<redactVars, lambda, logging, decodeVars, setup, inflight, issued>>

\* the 'end' event of the response stream
HttpResponseEnd ==
    /\ adapter = "http"
    /\ pc = "streaming"
    /\ IF resTap.installed /\ Len(resTap.chunks) > 0
       THEN LET body == Concat(resTap.chunks)
            IN  /\ resTap' = [resTap EXCEPT !.calls = Append(@, body)]
                /\ span' = CaptureBody(span, "response.body", body, response.headers)
                /\ doneCalls' = IF fault = "setBodyAttribute"
                                THEN doneCalls ELSE doneCalls + 1
       ELSE UNCHANGED <<resTap, span, doneCalls>>
    /\ pc' = "closed"
    /\ UNCHANGED <<adapter, options, request, response, fault, reqTap, transport>>
    /\ UNCHANGED fetchVars
    /\ UNCHANGED <<redactVars, lambda, logging, decodeVars, setup, inflight, issued>>

\* the response stream is destroyed before its 'end' event
HttpResponseError ==
    /\ adapter = "http"
    /\ pc = "streaming"
    /\ pc' = "aborted"
    /\ UNCHANGED <<adapter, options, request, response, fault, span,
                   reqTap, resTap, transport, doneCalls>>
    /\ UNCHANGED fetchVars
    /\ UNCHANGED <<redactVars, lambda, logging, decodeVars, setup, inflight, issued>>

(***************************************************************************)
(* The EnhancedUndici hooks: src/src/enhanced-undici.ts 142-383.           *)
(***************************************************************************)
\* String.prototype.trim
trim(s) ==
    LET kept == { i \in 1..Len(s) : ~IsWhitespace(Char(s, i)) }
    IN  IF kept = {} THEN ""
        ELSE SubSeq(s, CHOOSE i \in kept : \A j \in kept : i <= j,
                       CHOOSE i \in kept : \A j \in kept : i >= j)

\* headerObj[name] = value
ObjSet(headers, name, value) ==
    IF \E k \in 1..Len(headers) : headers[k].name = name
    THEN [k \in 1..Len(headers) |->
            IF headers[k].name = name THEN Header(name, value) ELSE headers[k]]
    ELSE Append(headers, Header(name, value))

\* an element of the v6 header array: a string or an array of strings
Str(text) == [isArray |-> FALSE, list |-> <<text>>]

\* Array.prototype.join
RECURSIVE join(_, _)
join(list, sep) ==
    IF Len(list) = 0 THEN ""
    ELSE IF Len(list) = 1 THEN list[1]
    ELSE list[1] \o sep \o join(Tail(list), sep)

\* String(x) of an element, "undefined" past the end of the array
StringOf(items, i) ==
    IF i > Len(items) THEN "undefined" ELSE join(items[i].list, ",")

\* the v5 format "name: value\r\n": the lines with a colon past the first
\* character, up to line n
RECURSIVE extractHeaderLines(_, _)
extractHeaderLines(lines, n) ==
    IF n = 0 THEN <<>>
    ELSE LET before == extractHeaderLines(lines, n - 1)
             line == lines[n]
             colonIndex == indexOf(line, ":") - 1
         IN  IF colonIndex > 0
             THEN ObjSet(before,
                         toLowerCase(trim(SubSeq(line, 1, colonIndex))),
                         trim(SubSeq(line, colonIndex + 2, Len(line))))
             ELSE before

\* the v6 format [key1, value1, key2, value2]: the pairs up to pair n
RECURSIVE extractHeaderPairs(_, _)
extractHeaderPairs(items, n) ==
    IF n = 0 THEN <<>>
    ELSE LET i == (2 * n) - 1
         IN  ObjSet(extractHeaderPairs(items, n - 1),
                    toLowerCase(StringOf(items, i)),
                    IF i + 1 <= Len(items) /\ items[i + 1].isArray
                    THEN join(items[i + 1].list, ", ")
                    ELSE StringOf(items, i + 1))

extractHeaders(headers) ==
    IF headers.isString
    THEN LET lines == split(headers.text, "\r\n")
         IN  extractHeaderLines(lines, Len(lines))
    ELSE extractHeaderPairs(headers.items, (Len(headers.items) + 1) \div 2)

\* the response's Buffer[]: a pair is kept when name and value are non-empty
RECURSIVE extractResponseHeaderPairs(_, _)
extractResponseHeaderPairs(items, n) ==
    IF n = 0 THEN <<>>
    ELSE LET i == (2 * n) - 1
             before == extractResponseHeaderPairs(items, n - 1)
         IN  IF i + 1 <= Len(items) /\ items[i] # "" /\ items[i + 1] # ""
             THEN ObjSet(before, toLowerCase(items[i]), items[i + 1])
             ELSE before

extractResponseHeaders(headers) ==
    extractResponseHeaderPairs(headers, (Len(headers) + 1) \div 2)

\* headerObj['content-type'] || null, "" standing for null
getContentTypeFromHeaders(headers) ==
    HeaderValue(extractHeaders(headers), "content-type")

\* a request body: nothing, a string, a Buffer of that text, or a plain object
\* whose JSON.stringify is that text
Body(kind, text) == [kind |-> kind, text |-> text]
NoBody == Body("none", "")

\* !body
Falsy(body) == body.kind = "none" \/ (body.kind = "string" /\ body.text = "")

binaryTypes ==
    <<"image/", "video/", "audio/", "application/octet-stream",
      "application/pdf", "application/zip", "multipart/form-data">>

\* the bytes below 32 other than tab, line feed and carriage return
NonPrintableCount(text) ==
    Cardinality({ i \in 1..Len(text) : Char(text, i) = "\f" })

getBodySize(body) == IF body.kind = "none" THEN 0 ELSE Len(body.text)

\* shouldCaptureBody of enhanced-undici.ts (http.ts has a function of the
\* same name over hosts)
undiciShouldCaptureBody(contentType, body) ==
    /\ ~Falsy(body)
    /\ ~\E i \in 1..Len(binaryTypes) :
            contentType # "" /\ includes(toLowerCase(contentType), binaryTypes[i])
    /\ ~(body.kind = "buffer" /\ Len(body.text) > 0
            /\ 10 * NonPrintableCount(body.text) > 3 * Len(body.text))
    /\ getBodySize(body) <= (IF options.maxBodySize = 0 THEN 10000
                             ELSE options.maxBodySize)

\* String(body) of a plain object is not reached; of the others it is the text
\* parseBody for the lower-cased content type ("" for none): a plain object
\* as it is, else the string by the first matching type; JSON.parse falls
\* back to the string
BodyAs(body, lowerContentType) ==
    IF body.kind = "object" THEN StructuredValue(body.text)
    ELSE IF \/ lowerContentType = ""
            \/ includes(lowerContentType, "application/json")
            \/ includes(lowerContentType, "application/x-amz-json")
    THEN ParseOrText(body.text)
    ELSE IF includes(lowerContentType, "application/x-www-form-urlencoded")
    THEN qsParse(body.text)
    ELSE IF includes(lowerContentType, "text/") THEN TextValue(body.text)
    ELSE ParseOrText(body.text)

\* if (!body) return null, then the decoding
parseBody(body, contentType) ==
    IF Falsy(body) THEN StructuredValue("null")
    ELSE BodyAs(body, toLowerCase(contentType))

\* parseInt(text, 10) as the attribute shows it
parseInt(text) ==
    LET from == SkipWhitespace(text, 1)
        to == DigitsEnd(text, from)
        zeros == { i \in from..(to - 1) : \A j \in from..i : Char(text, j) = "0" }
    IN  IF to = from THEN "NaN"
        ELSE IF Cardinality(zeros) = to - from THEN "0"
        ELSE SubSeq(text, from + Cardinality(zeros), to - 1)

UndiciRequest(origin, method, headers, contentType, contentLength, body) ==
    [origin |-> origin, method |-> method, headers |-> headers,
     contentType |-> contentType, contentLength |-> contentLength, body |-> body]
HeaderText(text) == [isString |-> TRUE, text |-> text, items |-> <<>>]
HeaderArray(items) == [isString |-> FALSE, text |-> "", items |-> items]

\* contentType "" and contentLength -1 stand for null
UndiciRequests ==
    { UndiciRequest("https://api.example.com", "POST",
          HeaderArray(<<Str("Authorization"), Str(TokenSub),
                        Str("Content-Type"), Str("application/json")>>),
          "application/json", 7, Body("string", "{\"a\":1}")),
      UndiciRequest("http://localhost:3000", "POST",
          HeaderText("X-Api-Key: k1\r\ncontent-type: text/plain\r\n:x\r\n"),
          "", -1, Body("buffer", "hi")),
      UndiciRequest("https://api.example.com", "GET",
          HeaderArray(<<Str("accept"), [isArray |-> TRUE, list |-> <<"a", "b">>], Str("cookie")>>),
          "", -1, NoBody),
      UndiciRequest("https://api.example.com", "PUT",
          HeaderArray(<<Str("content-type"), Str("image/png")>>),
          "", 5, Body("buffer", "\f\f\fab")),
      UndiciRequest("https://otlp.kubiks.ai", "POST",
          HeaderArray(<<>>),
          "application/json", 9, Body("object", "{\"k\":\"v\"}")),
      UndiciRequest("https://api.example.com", "POST",
          HeaderText("proxy-authorization: Basic dXNlcjpwYXNz"),
          "application/json", 4, Body("string", "null")) }

UndiciResponses ==
    { [headers |-> <<"Content-Type", "application/json", "Content-Length", "012",
                     "Set-Cookie", "sid=1">>,
       statusCode |-> 200, statusText |-> "OK"],
      [headers |-> <<"content-type", "text/plain", "x-empty", "">>,
       statusCode |-> 404, statusText |-> ""],
      [headers |-> <<>>, statusCode |-> 500, statusText |-> "Internal Server Error"] }

InitUndici ==
    /\ adapter = "undici"
    /\ options \in [captureHeaders : BOOLEAN, captureRequestBody : BOOLEAN,
                    captureResponseBody : BOOLEAN, maxBodySize : {0, 4}]
    /\ request \in UndiciRequests
    /\ response = NoResponse
    /\ fault \in {"none", "setAttributes"}
    /\ span = [NoSpan EXCEPT !.started = TRUE]
    /\ pc = "requestHook"
    /\ reqTap = NoTap
    /\ resTap = NoTap
    /\ transport = <<>>
    /\ doneCalls = 0
    /\ outcome = Pending
    /\ issued = <<>>

\* the header capture of enhancedRequestHook without the test of
\* this.options.captureHeaders
RequestHeaderAttributes_Always(headers) ==
    IF Len(headers) > 0
    THEN HeaderAttributes("request.headers.", headers)
    ELSE EmptyMap

\* the attributes of the header capture of enhancedRequestHook, for the
\* headers extractHeaders returned
RequestHeaderAttributes(headers) ==
    IF options.captureHeaders /\ Len(headers) > 0
    THEN HeaderAttributes("request.headers.", headers)
    ELSE EmptyMap

\* if (bodyData !== null) span.setAttribute('request.body', ...)
ParsedBodyAttribute(bodyData) ==
    IF ~bodyData.isString /\ bodyData.json = "null" THEN EmptyMap
    ELSE "request.body" :> AttributeText(bodyData)

\* the attributes of the body capture of enhancedRequestHook
RequestBodyAttributes(body, contentType) ==
    IF /\ options.captureRequestBody
       /\ ~Falsy(body)
       /\ undiciShouldCaptureBody(contentType, body)
    THEN ParsedBodyAttribute(parseBody(body, contentType))
    ELSE EmptyMap

\* the span after the try block of enhancedRequestHook ran to its end:
\* provenance, headers, the body under request.contentType ||
\* getContentTypeFromHeaders(request.headers), content type and length
enhancedRequestHook(sp, req) ==
    SetAttributes(sp,
        MapMerge(
            MapMerge(
                MapMerge(
                    MapMerge(Provenance("enhanced-undici"),
                             RequestHeaderAttributes(extractHeaders(req.headers))),
                    RequestBodyAttributes(req.body,
                        IF req.contentType # "" THEN req.contentType
                        ELSE getContentTypeFromHeaders(req.headers))),
                IF req.contentType # ""
                THEN "http.request.content_type" :> req.contentType
                ELSE EmptyMap),
            IF req.contentLength # -1
            THEN "http.request.content_length" :> NatToStr(req.contentLength)
            ELSE EmptyMap))

\* enhancedRequestHook(span, request); when fault = "setAttributes" the first
\* span call throws and the catch swallows it
UndiciRequestHook ==
    /\ adapter = "undici"
    /\ pc = "requestHook"
    /\ span' = IF fault = "setAttributes" THEN span
               ELSE enhancedRequestHook(span, request)
    /\ pc' = "sent"
    /\ UNCHANGED <<adapter, options, request, response, fault, reqTap, resTap,
                   transport, doneCalls>>
    /\ UNCHANGED fetchVars
    /\ UNCHANGED <<redactVars, lambda, logging, decodeVars, setup, inflight, issued>>

\* response.body.* for a response with a content type and a content length
DetectedBodyAttributes(contentType, contentLength) ==
    IF contentType # "" /\ contentLength # "" /\ options.captureResponseBody
    THEN ("response.body.detected" :> "true")
            @@ ("response.body.content_type" :> contentType)
            @@ ("response.body.content_length" :> parseInt(contentLength))
            @@ ("response.body.capture_limitation" :> "undici_stream_not_intercepted")
    ELSE EmptyMap

\* the attributes of the header capture of enhancedResponseHook, for the
\* headers extractResponseHeaders returned
ResponseHeaderAttributes(headers) ==
    IF options.captureHeaders /\ Len(headers) > 0
    THEN MapMerge(HeaderAttributes("response.headers.", headers),
                  DetectedBodyAttributes(HeaderValue(headers, "content-type"),
                                         HeaderValue(headers, "content-length")))
    ELSE EmptyMap

\* the span after the try block of enhancedResponseHook ran to its end
enhancedResponseHook(sp, res) ==
    SetAttributes(sp,
        MapMerge(ResponseHeaderAttributes(extractResponseHeaders(res.headers)),
                 ("http.response.status_code" :> NatToStr(res.statusCode))
                    @@ ("http.response.status_text" :> res.statusText)))

\* enhancedResponseHook(span, { request, response })
UndiciResponseHook(res) ==
    /\ adapter = "undici"
    /\ pc = "sent"
    /\ response' = [arrived |-> TRUE, headers |-> res.headers, url |-> ""]
    /\ span' = IF fault = "setAttributes" THEN span
               ELSE enhancedResponseHook(span, res)
    /\ pc' = "closed"
    /\ UNCHANGED <<adapter, options, request, fault, reqTap, resTap,
                   transport, doneCalls>>
    /\ UNCHANGED fetchVars
    /\ UNCHANGED <<redactVars, lambda, logging, decodeVars, setup, inflight, issued>>

(***************************************************************************)
(* The FetchInterceptor: src/src/fetch-interceptor.ts 35-286.              *)
(***************************************************************************)
\* new URL(url).host of an absolute url (new URL(url).protocol.slice(0, -1)
\* is what precedes "://")
UrlHost(url) ==
    LET rest == SubSeq(url, indexOf(url, "://") + 3, Len(url))
        slash == indexOf(rest, "/")
    IN  IF slash = 0 THEN rest ELSE SubSeq(rest, 1, slash - 1)

\* init.headers: absent, a Headers object, an array of pairs or a plain
\* object; keys lists what iteration yields, stringKeys whether every key is a
\* string (an array of pairs may hold other values)
NoHeaders == [kind |-> "none", entries |-> <<>>, stringKeys |-> TRUE]
HeadersInit(kind, entries) == [kind |-> kind, entries |-> entries, stringKeys |-> TRUE]
BadHeadersInit == [kind |-> "array", entries |-> <<Header("1", "v")>>,
                   stringKeys |-> FALSE]

RECURSIVE LowerKeys(_, _)
LowerKeys(entries, n) ==
    IF n = 0 THEN <<>>
    ELSE ObjSet(LowerKeys(entries, n - 1),
                toLowerCase(entries[n].name), entries[n].value)

\* normalizeHeaders(headers): ok = FALSE stands for the TypeError of
\* key.toLowerCase() on a key that is not a string
normalizeHeaders(headers) ==
    IF headers.kind = "array" /\ ~headers.stringKeys
    THEN [ok |-> FALSE, headers |-> <<>>,
          message |-> "key.toLowerCase is not a function"]
    ELSE [ok |-> TRUE, headers |-> LowerKeys(headers.entries, Len(headers.entries)),
          message |-> ""]

\* Object.fromEntries(new URLSearchParams(text)): the last value of a key wins
RECURSIVE fromEntries(_, _)
fromEntries(pairs, n) ==
    IF n = 0 THEN <<>>
    ELSE ObjSet(fromEntries(pairs, n - 1), pairs[n].key, pairs[n].value)

\* JSON.stringify of an object of strings
StringifyStrings(obj) ==
    "{" \o JoinMembers([k \in 1..Len(obj) |->
                [key |-> obj[k].name, canon |-> Quote(obj[k].value)]], TRUE)
        \o "}"

SearchParamsObject(pairs) == StructuredValue(StringifyStrings(fromEntries(pairs, Len(pairs))))

\* parseBodyText for the lower-cased content type ("" for none); JSON.parse
\* falls back to the text
BodyTextAs(text, lowerContentType) ==
    IF lowerContentType = "" \/ includes(lowerContentType, "application/json")
    THEN ParseOrText(text)
    ELSE IF includes(lowerContentType, "application/x-www-form-urlencoded")
    THEN SearchParamsObject(FormPairs(text))
    ELSE IF includes(lowerContentType, "text/") THEN TextValue(text)
    ELSE ParseOrText(text)

parseBodyText(text, contentType) == BodyTextAs(text, toLowerCase(contentType))

\* nonPrintableCount / bytes.length > 0.3
isBinary(text) ==
    Len(text) > 0 /\ 10 * NonPrintableCount(text) > 3 * Len(text)

\* binaryTypes.some(type => lowerContentType.includes(type))
isBinaryContentType(contentType) ==
    \E i \in 1..Len(binaryTypes) : includes(toLowerCase(contentType), binaryTypes[i])

ErrorObject(what, message) ==
    StructuredValue("{\"_error\":" \o Quote(what) \o ",\"_message\":" \o Quote(message) \o "}")

TruncatedPreview(text) ==
    StructuredValue("{\"_truncated\":true,\"_size\":" \o NatToStr(Len(text))
        \o ",\"_preview\":"
        \o Quote(SubSeq(text, 1, IF Len(text) < 100 THEN Len(text) ELSE 100)) \o "}")

\* captureRequestBody(body, headers); a Blob and a BigInt64Array are returned
\* as they are
\* the body of captureRequestBody's try, given normalizeHeaders(headers)
CapturedRequestBody(body, normalized, maxBodySize) ==
    IF ~normalized.ok
    THEN ErrorObject("Failed to capture request body", normalized.message)
    ELSE IF body.kind = "FormData"
    THEN StructuredValue("{\"_type\":\"FormData\",\"_note\":\"FormData not captured (likely contains files)\"}")
    ELSE IF body.kind = "URLSearchParams"
    THEN SearchParamsObject(FormPairs(body.text))
    ELSE IF body.kind = "ReadableStream"
    THEN StructuredValue("{\"_type\":\"ReadableStream\",\"_note\":\"Stream not captured\"}")
    ELSE IF body.kind = "Uint8Array" /\ isBinary(body.text)
    THEN StructuredValue("{\"_type\":\"Binary\",\"_size\":"
                \o NatToStr(Len(body.text))
                \o ",\"_note\":\"Binary data not captured\"}")
    ELSE IF body.kind = "string" /\ Len(body.text) > maxBodySize
    THEN TruncatedPreview(body.text)
    ELSE IF body.kind \in {"Uint8Array", "string"}
    THEN parseBodyText(body.text, HeaderValue(normalized.headers, "content-type"))
    ELSE IF body.kind = "Blob" THEN StructuredValue("{}")
    ELSE [isString |-> FALSE, text |-> "", json |-> "", throws |-> TRUE]

captureRequestBody(body, headers, maxBodySize) ==
    CapturedRequestBody(body, normalizeHeaders(headers), maxBodySize)

\* if (bodyData) span.setAttribute(key, typeof bodyData === 'string' ? bodyData
\* : JSON.stringify(bodyData)): the attribute set, if any
BodyAttribute(key, data) ==
    IF (IF data.isString THEN data.text # "" ELSE data.json \notin {"null", "0", "false"})
    THEN key :> AttributeText(data)
    ELSE EmptyMap

\* parseInt(text, 10) > maxBodySize, false for NaN
ExceedsMax(text, maxBodySize) ==
    LET n == parseInt(text)
        max == NatToStr(maxBodySize)
    IN  /\ n # "NaN"
        /\ \/ Len(n) > Len(max)
           \/ /\ Len(n) = Len(max)
              /\ \E i \in 1..Len(n) :
                    /\ IndexIn(Char(n, i), DigitIndex) > IndexIn(Char(max, i), DigitIndex)
                    /\ \A j \in 1..(i - 1) : Char(n, j) = Char(max, j)

\* captureResponseBody up to response.text(): the value returned without
\* reading the body, or reads = TRUE
ResponseBodySkipped(res, maxBodySize) ==
    LET contentType == HeaderValue(res.headers, "content-type")
        contentLength == IF HeaderValue(res.headers, "content-length") = "" THEN "0"
                         ELSE HeaderValue(res.headers, "content-length")
    IN  IF ExceedsMax(contentLength, maxBodySize)
        THEN [reads |-> FALSE,
              data |-> StructuredValue("{\"_truncated\":true,\"_size\":"
                        \o parseInt(contentLength) \o ",\"_note\":\"Response too large ("
                        \o parseInt(contentLength) \o " bytes)\"}")]
        ELSE IF isBinaryContentType(contentType)
        THEN [reads |-> FALSE,
              data |-> StructuredValue("{\"_type\":\"Binary\",\"_contentType\":"
                        \o Quote(contentType) \o ",\"_size\":" \o parseInt(contentLength)
                        \o ",\"_note\":\"Binary content not captured\"}")]
        ELSE [reads |-> TRUE, data |-> TextValue("")]

\* captureResponseBody after response.text() settled: with the text, or with
\* a rejection that the catch turns into an _error object
ResponseBodyRead(res, maxBodySize) ==
    IF res.reading = "error"
    THEN ErrorObject("Failed to capture response body", res.text)
    ELSE IF Len(res.text) > maxBodySize THEN TruncatedPreview(res.text)
    ELSE parseBodyText(res.text, HeaderValue(res.headers, "content-type"))

FetchRequest(url, host, method, headers, body) ==
    [url |-> url, host |-> host, method |-> method, headers |-> headers, body |-> body]

\* the calls fetch(url, { method, headers, body }); host is the url's host name
FetchRequests ==
    { FetchRequest("https://api.example.com/v1", "api.example.com", "POST",
          HeadersInit("object", <<Header("Authorization", TokenSub),
                                  Header("Content-Type", "application/json")>>),
          Body("string", "{\"a\":1}")),
      FetchRequest("http://localhost:3000/x", "localhost", "POST",
          NoHeaders, Body("string", "hi")),
      FetchRequest("https://api.example.com/v1", "api.example.com", "GET",
          BadHeadersInit, NoBody),
      FetchRequest("https://api.example.com/form", "api.example.com", "POST",
          HeadersInit("Headers",
              <<Header("content-type", "application/x-www-form-urlencoded")>>),
          Body("string", "a=1&b=2&a=3")),
      FetchRequest("https://otlp.kubiks.ai/v1/traces", "otlp.kubiks.ai", "POST",
          NoHeaders, Body("BigInt64Array", "")),
      FetchRequest("https://api.example.com/up", "api.example.com", "PUT",
          HeadersInit("array", <<Header("X-Api-Key", "k1")>>),
          Body("Uint8Array", "\f\fab")),
      FetchRequest("https://api.example.com/n", "api.example.com", "POST",
          NoHeaders, Body("string", "0")),
      FetchRequest("https://api.example.com/q", "api.example.com", "POST",
          BadHeadersInit, Body("URLSearchParams", "q=1")),
      FetchRequest("https://api.example.com/s", "api.example.com", "POST",
          NoHeaders, Body("URLSearchParams", "a=1&a=2")),
      FetchRequest("https://api.example.com/img", "api.example.com", "POST",
          HeadersInit("object", <<Header("Content-Type", "image/png")>>),
          Body("string", "GIF89a")) }

\* the response of the real fetch: what response.headers.forEach yields, and
\* how reading the body goes: "complete" with text, "stalled" (the stream
\* never ends) or "error" (response.text() rejects with message text)
FetchResponse(status, statusText, headers, reading, text) ==
    [arrived |-> TRUE, rejected |-> FALSE, status |-> status,
     statusText |-> statusText, headers |-> headers, url |-> "",
     reading |-> reading, text |-> text]

FetchResponses ==
    { FetchResponse(200, "OK",
          <<Header("content-type", "application/json"), Header("set-cookie", "sid=1")>>,
          "complete", "{\"ok\":true}"),
      FetchResponse(200, "OK",
          <<Header("content-type", "text/event-stream")>>, "stalled", ""),
      FetchResponse(500, "Internal Server Error",
          <<Header("content-length", "20000")>>, "complete", "big"),
      FetchResponse(200, "OK",
          <<Header("content-type", "image/png")>>, "stalled", ""),
      FetchResponse(204, "No Content", <<>>, "complete", ""),
      FetchResponse(200, "OK",
          <<Header("content-type", "text/plain")>>, "error", "terminated") }

\* the values the real fetch rejects with: an Error, and an abort reason that
\* is a plain object with a message
Rejections ==
    { [isError |-> TRUE,  message |-> "fetch failed"],
      [isError |-> FALSE, message |-> "quota exceeded"] }

FetchOptions ==
    [captureHeaders : BOOLEAN, captureRequestBody : BOOLEAN,
     captureResponseBody : BOOLEAN, maxBodySize : {10000, 4}]

\* the outcome of the steps before the real fetch: the error thrown by one of
\* them, if any, and the attributes set by then
Captured(throws, message, attrs) ==
    [throws |-> throws, error |-> [isError |-> TRUE, message |-> message], attrs |-> attrs]

\* the body step, given what captureRequestBody resolved with; JSON.stringify
\* throws for the BigInt64Array it returned as it is
CapturedBody(capturesBody, bodyData, attrs) ==
    IF capturesBody /\ "throws" \in DOMAIN bodyData
    THEN Captured(TRUE, "Do not know how to serialize a BigInt", attrs)
    ELSE IF capturesBody
    THEN Captured(FALSE, "", MapMerge(attrs, BodyAttribute("request.body", bodyData)))
    ELSE Captured(FALSE, "", attrs)

\* the header step, if (self.options.captureHeaders && init?.headers), given
\* what normalizeHeaders did, and then the body step
CapturedHeaders(req, opts, capturesHeaders, initial, normalized) ==
    IF capturesHeaders /\ ~normalized.ok
    THEN Captured(TRUE, normalized.message, initial)
    ELSE CapturedBody(opts.captureRequestBody /\ ~Falsy(req.body),
             captureRequestBody(req.body, req.headers, opts.maxBodySize),
             IF capturesHeaders
             THEN MapMerge(initial, flattenHeaders("request.headers.", normalized.headers))
             ELSE initial)

\* interceptFetch from startActiveSpan to the call of the real fetch: the
\* attributes the span has by then, and the error thrown instead of that call
\* when a step throws
RequestCapture(req, opts) ==
    CapturedHeaders(req, opts,
        opts.captureHeaders /\ req.headers.kind # "none",
        ("http.method" :> req.method)
            @@ ("http.url" :> req.url)
            @@ ("http.scheme" :> SubSeq(req.url, 1, indexOf(req.url, "://") - 1))
            @@ ("http.host" :> UrlHost(req.url))
            @@ Provenance("fetch-interceptor"),
        normalizeHeaders(req.headers))

\* the response body step when the request body is set only here
ResponseRead_CapturesRequest(captures, skipped, attrs) ==
    [reads |-> captures /\ skipped.reads,
     attrs |-> MapMerge(attrs, "request.body" :> "late")]

\* the response body step up to response.text(), given what
\* captureResponseBody does before it
ResponseRead(captures, skipped, attrs) ==
    IF captures /\ skipped.reads
    THEN [reads |-> TRUE, attrs |-> attrs]
    ELSE [reads |-> FALSE,
          attrs |-> IF captures
                    THEN MapMerge(attrs, BodyAttribute("response.body", skipped.data))
                    ELSE attrs]

\* interceptFetch from the resolution of the real fetch to response.text():
\* the attributes set, and whether the body of the clone is read
ResponseCapture(res, opts) ==
    ResponseRead(opts.captureResponseBody,
                 ResponseBodySkipped(res, opts.maxBodySize),
                 MapMerge(("http.status_code" :> NatToStr(res.status))
                            @@ ("http.status_text" :> res.statusText),
                          IF opts.captureHeaders
                          THEN flattenHeaders("response.headers.",
                                   LowerKeys(res.headers, Len(res.headers)))
                          ELSE EmptyMap))

\* the three parts of interceptFetch for every call, response and options
\* (they depend on nothing else), each computed once: the steps before the
\* real fetch, those after it up to response.text(), and the attribute set
\* once response.text() has settled
RequestCaptures ==
    { [of |-> req, opts |-> opts, capture |-> RequestCapture(req, opts)] :
        req \in FetchRequests, opts \in FetchOptions }
ResponseCaptures ==
    { [of |-> res, opts |-> opts, capture |-> ResponseCapture(res, opts)] :
        res \in FetchResponses, opts \in FetchOptions }
BodyCaptures ==
    { [of |-> res, opts |-> opts, capture |-> BodyAttribute("response.body",
                        ResponseBodyRead(res, opts.maxBodySize))] :
        res \in FetchResponses, opts \in FetchOptions }

CaptureOf(captures, of, opts) ==
    (CHOOSE c \in captures : c.of = of /\ c.opts = opts).capture

InitFetch ==
    /\ adapter = "fetch"
    /\ options \in FetchOptions
    /\ request \in FetchRequests
    /\ response = NoResponse
    /\ fault = "none"
    /\ span = NoSpan
    /\ pc = "call"
    /\ reqTap = NoTap
    /\ resTap = NoTap
    /\ transport = <<>>
    /\ doneCalls = 0
    /\ outcome = Pending
    /\ issued = <<>>

\* the catch block reporting the message of whatever was thrown
Thrown_AnyMessage(sp, error) ==
    [sp EXCEPT !.status = "ERROR", !.message = error.message, !.ended = @ + 1]

\* catch (error) { span.setStatus(ERROR, message); throw error } finally
\* { span.end() }
Thrown(sp, error) ==
    [sp EXCEPT !.status = "ERROR",
               !.message = IF error.isError THEN error.message ELSE "Unknown error",
               !.ended = @ + 1]

\* the return path without the finally block
Returned_NoFinally(sp) == [sp EXCEPT !.status = "OK"]

\* span.setStatus({ code: OK }); return response; finally { span.end() }
Returned(sp) == [sp EXCEPT !.status = "OK", !.ended = @ + 1]

\* fetch(input, init) up to the call of the original fetch
FetchCall ==
    /\ adapter = "fetch"
    /\ pc = "call"
    /\ \E capture \in {CaptureOf(RequestCaptures, request, options)} :
        IF capture.throws
        THEN /\ span' = Thrown([span EXCEPT !.started = TRUE, !.attrs = capture.attrs],
                               capture.error)
             /\ outcome' = [kind |-> "rejected", value |-> capture.error]
             /\ pc' = "rejected"
             /\ UNCHANGED transport
        ELSE /\ span' = [span EXCEPT !.started = TRUE, !.attrs = capture.attrs]
             /\ transport' = Append(transport, [op |-> "fetch", data |-> request.body])
             /\ pc' = "fetching"
             /\ UNCHANGED outcome
    /\ UNCHANGED <<adapter, options, request, response, fault, reqTap, resTap, doneCalls>>
    /\ UNCHANGED <<redactVars, lambda, logging, decodeVars, setup, inflight, issued>>

\* the original fetch resolves with res: status and headers are recorded, then
\* the body of a clone is captured
FetchResolve(res) ==
    /\ adapter = "fetch"
    /\ pc = "fetching"
    /\ response' = res
    /\ \E capture \in {CaptureOf(ResponseCaptures, res, options)} :
        IF capture.reads
        THEN /\ span' = SetAttributes(span, capture.attrs)
             /\ pc' = "reading"
             /\ UNCHANGED outcome
        ELSE /\ span' = Returned(SetAttributes(span, capture.attrs))
             /\ pc' = "resolved"
             /\ outcome' = [kind |-> "resolved", value |-> res]
    /\ UNCHANGED <<adapter, options, request, fault, reqTap, resTap, transport, doneCalls>>
    /\ UNCHANGED <<redactVars, lambda, logging, decodeVars, setup, inflight, issued>>

\* the original fetch rejects with error
FetchReject(error) ==
    /\ adapter = "fetch"
    /\ pc = "fetching"
    /\ response' = [arrived |-> TRUE, rejected |-> TRUE, error |-> error,
                    headers |-> <<>>, url |-> ""]
    /\ span' = Thrown(span, error)
    /\ outcome' = [kind |-> "rejected", value |-> error]
    /\ pc' = "rejected"
    /\ UNCHANGED <<adapter, options, request, fault, reqTap, resTap, transport, doneCalls>>
    /\ UNCHANGED <<redactVars, lambda, logging, decodeVars, setup, inflight, issued>>

\* response.text() of the clone settles; for a body that never completes it
\* never does
FetchBodySettled ==
    /\ adapter = "fetch"
    /\ pc = "reading"
    /\ response.reading # "stalled"
    /\ span' = Returned(SetAttributes(span, CaptureOf(BodyCaptures, response, options)))
    /\ outcome' = [kind |-> "resolved", value |-> response]
    /\ pc' = "resolved"
    /\ UNCHANGED <<adapter, options, request, response, fault, reqTap, resTap,
                   transport, doneCalls>>
    /\ UNCHANGED <<redactVars, lambda, logging, decodeVars, setup, inflight, issued>>

Init ==
    /\ RedactIdle
    /\ DecodeIdle
    /\ LambdaIdle
    /\ LoggingIdle
    /\ SetupIdle
    /\ ConcurrentIdle
    /\ (InitHttp \/ InitUndici \/ InitFetch)

Next ==
    \/ HttpRequestHook
    \/ \E data \in RequestChunks : HttpWrite(data)
    \/ \E data \in EndArguments : HttpEnd(data)
    \/ \E headers \in HttpResponseHeaders : HttpResponseHook(headers)
    \/ \E chunk \in ResponseChunks : HttpResponseData(chunk)
    \/ HttpResponseEnd
    \/ HttpResponseError
    \/ UndiciRequestHook
    \/ \E res \in UndiciResponses : UndiciResponseHook(res)
    \/ FetchCall
    \/ \E res \in FetchResponses : FetchResolve(res)
    \/ \E error \in Rejections : FetchReject(error)
    \/ FetchBodySettled

Spec == Init /\ [][Next]_vars

\* the same calls, of instrumentations constructed with header capture
\* disabled
InitHeadersDisabled ==
    /\ Init
    /\ ~options.captureHeaders

SpecHeadersDisabled == InitHeadersDisabled /\ [][Next]_vars

\* the fetch interceptor alone; every step of the interceptor that is enabled
\* is eventually taken (promise continuations run), the settling of the real
\* fetch and of the body included when they can settle
InitFetchOnly ==
    /\ RedactIdle
    /\ DecodeIdle
    /\ LambdaIdle
    /\ LoggingIdle
    /\ SetupIdle
    /\ ConcurrentIdle
    /\ InitFetch

NextFetch ==
    \/ FetchCall
    \/ \E res \in FetchResponses : FetchResolve(res)
    \/ \E error \in Rejections : FetchReject(error)
    \/ FetchBodySettled

FairSpec == InitFetchOnly /\ [][NextFetch]_vars /\ WF_vars(NextFetch)

(***************************************************************************)
(* SpecSetup: the setup operations of the package in any order:            *)
(* getEnhancedHttpInstrumentations (enhanced-http.ts 31-86),               *)
(* enableFetchBodyCapture and disableFetchBodyCapture (fetch-interceptor.ts *)
(* 294-309) and KubiksSDK.start (kubiks.ts 41-54, 142-150).                *)
(*                                                                         *)
(* setup.fetch is the number of interceptor wrappers around the native     *)
(* fetch that globalThis.fetch is; setup.instance is interceptorInstance   *)
(* with the fetch it stored as originalFetch; setup.held are the           *)
(* instrumentations the application holds and setup.registered those given *)
(* to registerInstrumentations.                                            *)
(***************************************************************************)
\* the console.debug call of the FetchInterceptor constructor that throws:
\* none, the first (line 28, before anything is done) or the last (line 32,
\* after interceptFetch replaced globalThis.fetch)
Failures == {"none", "first", "last"}

\* the values of the boolean options: true, false, or undefined (the key is
\* there with no value)
OptionValues == {"undefined", "true", "false"}

\* the defaults of FetchInterceptor and of EnhancedUndiciInstrumentation
Defaults ==
    ("captureRequestBody" :> "true") @@ ("captureResponseBody" :> "true")
        @@ ("captureHeaders" :> "true") @@ ("maxBodySize" :> "10000")

\* this.options = { captureRequestBody: true, ..., ...options }: every key
\* options has replaces the default, whatever its value
WithDefaults(given) == MapMerge(Defaults, given)

\* new FetchInterceptor(options) when its constructor returns
NewInterceptor(originalFetch, given) ==
    [exists |-> TRUE, originalFetch |-> originalFetch,
     given |-> given, options |-> WithDefaults(given)]

\* enableFetchBodyCapture(options) without the call of restore
enableFetchBodyCapture_NoRestore(st, given, failure) ==
    [threw |-> FALSE, fetch |-> st.fetch + 1,
     instance |-> NewInterceptor(st.fetch, given)]

\* enableFetchBodyCapture(options): restore the previous interceptor, then
\* construct the new one; interceptorInstance is assigned only if the
\* constructor returns
enableFetchBodyCapture(st, given, failure) ==
    IF failure = "first"
    THEN [threw |-> TRUE,
          fetch |-> IF st.instance.exists THEN st.instance.originalFetch ELSE st.fetch,
          instance |-> st.instance]
    ELSE [threw |-> failure = "last",
          fetch |-> (IF st.instance.exists THEN st.instance.originalFetch ELSE st.fetch) + 1,
          instance |-> IF failure = "last" THEN st.instance
                       ELSE NewInterceptor(IF st.instance.exists
                                           THEN st.instance.originalFetch
                                           ELSE st.fetch,
                                           given)]

\* disableFetchBodyCapture()
disableFetchBodyCapture(st) ==
    IF st.instance.exists
    THEN [st EXCEPT !.fetch = st.instance.originalFetch,
                    !.instance = NoSetup.instance]
    ELSE st

\* an instrumentation constructed with the options given; options is what it
\* works with
Instrumentation(kind, given, effective) ==
    [kind |-> kind, given |-> given, options |-> effective]

\* the options getEnhancedHttpInstrumentations gives to
\* enableFetchBodyCapture and to new EnhancedUndiciInstrumentation
UndiciOptions(opts) ==
    ("captureRequestBody" :> opts.captureBody)
        @@ ("captureResponseBody" :> opts.captureBody)
        @@ ("captureHeaders" :> opts.captureHeaders)
InterceptorOptions(opts) == UndiciOptions(opts) @@ ("maxBodySize" :> "5242880")

\* what getEnhancedHttpInstrumentations does once enableFetchBodyCapture has
\* returned or thrown: the list returned
EnhancedList(opts, enabled) ==
    <<Instrumentation("BetterHttp",
            ("captureBody" :> opts.captureBody) @@ ("captureHeaders" :> opts.captureHeaders),
            ("captureBody" :> opts.captureBody) @@ ("captureHeaders" :> opts.captureHeaders))>>
        \o (IF opts.enableFetchBodyCapture /\ ~enabled.threw THEN <<>>
            ELSE <<Instrumentation("EnhancedUndici", UndiciOptions(opts),
                                   WithDefaults(UndiciOptions(opts)))>>)

\* getEnhancedHttpInstrumentations(options), given what its call of
\* enableFetchBodyCapture does; options.enableFetchBodyCapture is FALSE only
\* when the option is given as false
EnhancedWith(st, opts, enabled) ==
    IF opts.enableFetchBodyCapture
    THEN [list |-> EnhancedList(opts, enabled),
          fetch |-> enabled.fetch, instance |-> enabled.instance]
    ELSE [list |-> EnhancedList(opts, [threw |-> FALSE]),
          fetch |-> st.fetch, instance |-> st.instance]

getEnhancedHttpInstrumentations(st, opts, failure) ==
    EnhancedWith(st, opts, enableFetchBodyCapture(st, InterceptorOptions(opts), failure))

\* getDefaultInstrumentations(options)
getDefaultInstrumentations(st, sdk, failure) ==
    getEnhancedHttpInstrumentations(st,
        [captureBody |-> "true", captureHeaders |-> "true",
         enableFetchBodyCapture |-> sdk.enableFetchBodyCapture],
        failure)

EnhancedOptions ==
    [captureBody : OptionValues, captureHeaders : {"undefined", "true"},
     enableFetchBodyCapture : BOOLEAN]
SDKOptions ==
    [includeDefaultInstrumentations : BOOLEAN, enableFetchBodyCapture : BOOLEAN,
     instrumentations : BOOLEAN]

\* the options objects given to enableFetchBodyCapture directly: each key
\* absent, or there with a value
DirectOptions ==
    [captureRequestBody : OptionValues \cup {"absent"},
     captureResponseBody : OptionValues \cup {"absent"},
     captureHeaders : OptionValues \cup {"absent"}]
OwnKeys(o) == [k \in { k \in DOMAIN o : o[k] # "absent" } |-> o[k]]

InitSetup ==
    /\ setup = NoSetup
    /\ RedactIdle
    /\ CallIdle
    /\ DecodeIdle
    /\ LambdaIdle
    /\ LoggingIdle
    /\ ConcurrentIdle

\* the application calls getEnhancedHttpInstrumentations(opts) and keeps the
\* list for the instrumentations option of the SDK
GetEnhancedHttpInstrumentations(opts, failure) ==
    /\ ~setup.started
    /\ setup.calls < MaxSetupCalls
    /\ \E res \in {getEnhancedHttpInstrumentations(setup, opts, failure)} :
        setup' = [setup EXCEPT
            !.calls = @ + 1,
            !.history = Append(@, "getEnhancedHttpInstrumentations"),
            !.fetch = res.fetch,
            !.instance = res.instance,
            !.held = @ \o res.list]
    /\ UNCHANGED <<redactVars, lambda, logging, callVars, decodeVars, inflight>>

\* the application calls enableFetchBodyCapture(options)
EnableFetchBodyCapture(given) ==
    /\ setup.calls < MaxSetupCalls
    /\ \E res \in {enableFetchBodyCapture(setup, given, "none")} :
        setup' = [setup EXCEPT
            !.calls = @ + 1,
            !.history = Append(@, "enable"),
            !.fetch = res.fetch,
            !.instance = res.instance]
    /\ UNCHANGED <<redactVars, lambda, logging, callVars, decodeVars, inflight>>

\* the application calls disableFetchBodyCapture()
DisableFetchBodyCapture ==
    /\ setup.calls < MaxSetupCalls
    /\ setup' = [disableFetchBodyCapture(setup) EXCEPT
            !.calls = @ + 1,
            !.history = Append(@, "disable")]
    /\ UNCHANGED <<redactVars, lambda, logging, callVars, decodeVars, inflight>>

\* new KubiksSDK(sdk).start(): the default instrumentations, if included,
\* followed by the ones the application gave (sdk.instrumentations: the list
\* it holds, or none) go to registerInstrumentations
Start(sdk, failure) ==
    /\ ~setup.started
    /\ \E res \in {getDefaultInstrumentations(setup, sdk, failure)} :
        setup' =
            IF sdk.includeDefaultInstrumentations
            THEN [setup EXCEPT
                    !.started = TRUE,
                    !.fetch = res.fetch,
                    !.instance = res.instance,
                    !.registered = res.list
                                    \o (IF sdk.instrumentations THEN setup.held ELSE <<>>)]
            ELSE [setup EXCEPT
                    !.started = TRUE,
                    !.registered = IF sdk.instrumentations THEN setup.held ELSE <<>>]
    /\ UNCHANGED <<redactVars, lambda, logging, callVars, decodeVars, inflight>>

NextSetup ==
    \/ \E opts \in EnhancedOptions, failure \in Failures :
            GetEnhancedHttpInstrumentations(opts, failure)
    \/ DisableFetchBodyCapture
    \/ \E sdk \in SDKOptions, failure \in Failures : Start(sdk, failure)

SpecSetup == InitSetup /\ [][NextSetup]_vars

\* SpecToggle: enableFetchBodyCapture and disableFetchBodyCapture called by
\* the application in any order
NextToggle ==
    \/ \E given \in DirectOptions : EnableFetchBodyCapture(OwnKeys(given))
    \/ DisableFetchBodyCapture

SpecToggle == InitSetup /\ [][NextToggle]_vars

(***************************************************************************)
(* SpecDecode: each body decoder applied once to a body text and a content *)
(* type: _parseBodySafe (http.ts 546-560), parseBody (enhanced-undici.ts   *)
(* 338-383) and parseBodyText (fetch-interceptor.ts 205-235).              *)
(***************************************************************************)
\* the body texts tried. json: what JSON.parse returns for the text, as the
\* string it is (isString) or as its JSON.stringify, and valid = FALSE when it
\* throws; form: the JSON.stringify of the mapping of a urlencoded text with
\* every value of a repeated key kept in an array ("" for the other texts)
BodyText(text, valid, isString, json, form) ==
    [text |-> text, valid |-> valid, isString |-> isString, json |-> json, form |-> form]
BodyTexts ==
    { BodyText("{\"a\":1}", TRUE, FALSE, "{\"a\":1}", ""),
      BodyText("{ \"a\" : [1, true, null] }", TRUE, FALSE, "{\"a\":[1,true,null]}", ""),
      BodyText("{\"a\":1,\"a\":{\"b\":\"c\"}}", TRUE, FALSE, "{\"a\":{\"b\":\"c\"}}", ""),
      BodyText("\"hi\"", TRUE, TRUE, "hi", ""),
      BodyText(" 12 ", TRUE, FALSE, "12", ""),
      BodyText("null", TRUE, FALSE, "null", ""),
      BodyText("{\"a\":1", FALSE, FALSE, "", ""),
      BodyText("{'a':1}", FALSE, FALSE, "", ""),
      BodyText("[1,]", FALSE, FALSE, "", ""),
      BodyText("tru", FALSE, FALSE, "", ""),
      BodyText("{\"a\":1} x", FALSE, FALSE, "", ""),
      BodyText("", FALSE, FALSE, "", ""),
      BodyText("q=1", FALSE, FALSE, "", "{\"q\":\"1\"}"),
      BodyText("a=1&b=2&a=3", FALSE, FALSE, "", "{\"a\":[\"1\",\"3\"],\"b\":\"2\"}"),
      BodyText("a=1&a=2&a=3", FALSE, FALSE, "", "{\"a\":[\"1\",\"2\",\"3\"]}") }

ContentTypes ==
    { "", "application/json", "application/json; charset=utf-8",
      "application/x-www-form-urlencoded", "text/plain" }

\* parseBody is given a string or a Buffer, the other two a string
DecoderInputs ==
    { [decoder |-> d.decoder, kind |-> d.kind, body |-> b, contentType |-> c] :
        d \in { [decoder |-> "_parseBodySafe", kind |-> "string"],
                [decoder |-> "parseBody", kind |-> "string"],
                [decoder |-> "parseBody", kind |-> "buffer"],
                [decoder |-> "parseBodyText", kind |-> "string"] },
        b \in BodyTexts, c \in ContentTypes }

\* the call of the decoder; _parseBodySafe reads headers['content-type']
Decoded(in) ==
    IF in.decoder = "_parseBodySafe"
    THEN _parseBodySafe(in.body.text,
            IF in.contentType = "" THEN <<>>
            ELSE <<Header("content-type", in.contentType)>>)
    ELSE IF in.decoder = "parseBody"
    THEN parseBody(Body(in.kind, in.body.text), in.contentType)
    ELSE parseBodyText(in.body.text, in.contentType)

InitDecode ==
    /\ dInput \in DecoderInputs
    /\ dResult = NoDecoded
    /\ RedactIdle
    /\ CallIdle
    /\ SetupIdle
    /\ ConcurrentIdle
    /\ LambdaIdle
    /\ LoggingIdle

Decode ==
    /\ dInput.decoder # "none"
    /\ ~dResult.done
    /\ dResult' = [done |-> TRUE, value |-> Decoded(dInput)]
    /\ UNCHANGED <<dInput, redactVars, lambda, logging, callVars, setup, inflight>>

NextDecode == Decode

SpecDecode == InitDecode /\ [][NextDecode]_vars

(***************************************************************************)
(* SpecConcurrent: several calls in flight at once, their steps            *)
(* interleaved in any order. A call goes through the http instrumentation  *)
(* with captureBody (getClientRequestBody and getClientResponseBody,       *)
(* http.ts 469-540) or through the fetch interceptor (fetch-interceptor.ts *)
(* 38-116).                                                                *)
(*                                                                         *)
(* inflight.call[c] is call c: its span attributes, what the application   *)
(* wrote and what the response delivered so far, the bodies given to its   *)
(* capture callbacks and the flow state of its response stream.            *)
(* inflight.heap holds the arrays the taps allocate (const chunks = []),   *)
(* each under the identity it was allocated with.                          *)
(***************************************************************************)
Calls == 1..MaxCalls

\* the chunks call c writes and the chunks of its response: they name the call
Payload(c) == << "{\"n\":", NatToStr(c) \o "}" >>
ResponsePayload(c) == << "{\"r\":", NatToStr(c) \o "}" >>

ConcurrentHeaders == <<Header("content-type", "application/json")>>
ConcurrentOptions ==
    [captureHeaders |-> TRUE, captureRequestBody |-> TRUE,
     captureResponseBody |-> TRUE, maxBodySize |-> 10000]
ConcurrentRequest(c) ==
    FetchRequest("https://api.example.com/v1", "api.example.com", "POST",
                 NoHeaders, Body("string", Concat(Payload(c))))
ConcurrentResponse(c) ==
    FetchResponse(200, "OK", ConcurrentHeaders, "complete", Concat(ResponsePayload(c)))

\* const chunks: Buffer[] = [] inside getClientRequestBody and
\* getClientResponseBody: the array allocated by the invocation for call c
NewArray_ModuleLevel(c, side) == <<0, side>>
NewArray(c, side) == <<c, side>>

ArrayIds == (0..MaxCalls) \X {"request", "response"}

\* r.pipe(pt): Node switches the source stream to flowing mode
pipe(r) == [r EXCEPT !.readableFlowing = "true"]

\* the last three statements of getClientResponseBody
getClientResponseBody_NoRestore(r) == pipe(r)
getClientResponseBody(r) ==
    [pipe(r) EXCEPT !.readableFlowing = r.readableFlowing]

NewCall(kind) ==
    [kind |-> kind, pc |-> IF kind = "http" THEN "requestHook" ELSE "call",
     attrs |-> EmptyMap, wrote |-> <<>>, received |-> <<>>, bodies |-> <<>>,
     readableFlowing |-> "null", originalState |-> "null"]

InitConcurrent ==
    /\ \E kinds \in [Calls -> {"http", "fetch"}] :
        inflight = [call |-> [c \in Calls |-> NewCall(kinds[c])],
                    heap |-> [a \in ArrayIds |-> <<>>]]
    /\ RedactIdle
    /\ CallIdle
    /\ DecodeIdle
    /\ LambdaIdle
    /\ LoggingIdle
    /\ SetupIdle

\* chunks.push(data) on the array of the tap of call c
Pushed(c, side, text) ==
    [inflight.heap EXCEPT ![NewArray(c, side)] = Append(@, text)]

\* cb(body): the capture callback of call c decodes the body and sets the
\* attribute on the span of call c
Delivered(call, key, body) ==
    [CaptureBody(call, key, body, ConcurrentHeaders) EXCEPT
        !.bodies = Append(@, [key |-> key, body |-> body])]

\* requestHook of call c: getClientRequestBody allocates its array and
\* replaces write and end
ConcurrentRequestHook(c) ==
    /\ inflight.call[c].pc = "requestHook"
    /\ inflight' = [inflight EXCEPT
            !.call[c].pc = "writing",
            !.heap[NewArray(c, "request")] = <<>>]
    /\ UNCHANGED <<redactVars, lambda, logging, callVars, decodeVars, setup>>

\* the tapped write of call c, given the array after the push
TappedWrite(c, text, heap) ==
    [inflight EXCEPT
        !.heap = heap,
        !.call[c] =
            IF Char(text, Len(text)) = "}"
            THEN Delivered([@ EXCEPT !.wrote = Append(@, text)], "request.body",
                           Concat(heap[NewArray(c, "request")]))
            ELSE [@ EXCEPT !.wrote = Append(@, text)]]

\* request.write(data) of call c with the next chunk of its payload
ConcurrentWrite(c) ==
    /\ inflight.call[c].pc = "writing"
    /\ Len(inflight.call[c].wrote) < Len(Payload(c))
    /\ \E text \in {Payload(c)[Len(inflight.call[c].wrote) + 1]} :
        inflight' = TappedWrite(c, text, Pushed(c, "request", text))
    /\ UNCHANGED <<redactVars, lambda, logging, callVars, decodeVars, setup>>

\* the tapped end of call c, given the array after the push, if any
TappedEnd(c, wrote, heap) ==
    [inflight EXCEPT
        !.heap = heap,
        !.call[c] =
            IF Len(heap[NewArray(c, "request")]) > 0
            THEN Delivered([@ EXCEPT !.wrote = wrote, !.pc = "sent"], "request.body",
                           Concat(heap[NewArray(c, "request")]))
            ELSE [@ EXCEPT !.wrote = wrote, !.pc = "sent"]]

\* request.end(data) of call c with the next chunk of its payload, or
\* request.end()
ConcurrentEnd(c, withData) ==
    /\ inflight.call[c].pc = "writing"
    /\ withData => Len(inflight.call[c].wrote) < Len(Payload(c))
    /\ inflight' =
        IF withData
        THEN TappedEnd(c,
                Append(inflight.call[c].wrote,
                       Payload(c)[Len(inflight.call[c].wrote) + 1]),
                Pushed(c, "request", Payload(c)[Len(inflight.call[c].wrote) + 1]))
        ELSE TappedEnd(c, inflight.call[c].wrote, inflight.heap)
    /\ UNCHANGED <<redactVars, lambda, logging, callVars, decodeVars, setup>>

\* responseHook of call c for a response whose readableFlowing is flowing:
\* getClientResponseBody allocates its array and pipes the response
ConcurrentResponseHook(c, flowing) ==
    /\ inflight.call[c].pc = "sent"
    /\ inflight' = [inflight EXCEPT
            !.call[c] = getClientResponseBody(
                            [@ EXCEPT !.pc = "streaming",
                                      !.originalState = flowing,
                                      !.readableFlowing = flowing]),
            !.heap[NewArray(c, "response")] = <<>>]
    /\ UNCHANGED <<redactVars, lambda, logging, callVars, decodeVars, setup>>

\* a 'data' event of the pass-through of call c
ConcurrentResponseData(c) ==
    /\ inflight.call[c].pc = "streaming"
    /\ Len(inflight.call[c].received) < Len(ResponsePayload(c))
    /\ \E chunk \in {ResponsePayload(c)[Len(inflight.call[c].received) + 1]} :
        inflight' = [inflight EXCEPT
            !.call[c].received = Append(@, chunk),
            !.heap = Pushed(c, "response", chunk)]
    /\ UNCHANGED <<redactVars, lambda, logging, callVars, decodeVars, setup>>

\* the 'end' event of the pass-through of call c
ConcurrentResponseEnd(c) ==
    /\ inflight.call[c].pc = "streaming"
    /\ inflight' = [inflight EXCEPT
            !.call[c] =
                IF Len(inflight.heap[NewArray(c, "response")]) > 0
                THEN Delivered([@ EXCEPT !.pc = "done"], "response.body",
                               Concat(inflight.heap[NewArray(c, "response")]))
                ELSE [@ EXCEPT !.pc = "done"]]
    /\ UNCHANGED <<redactVars, lambda, logging, callVars, decodeVars, setup>>

\* the intercepted fetch of call c up to the call of the original fetch
ConcurrentFetchCall(c) ==
    /\ inflight.call[c].pc = "call"
    /\ inflight' = [inflight EXCEPT
            !.call[c].pc = "fetching",
            !.call[c].wrote = Payload(c),
            !.call[c].attrs =
                RequestCapture(ConcurrentRequest(c), ConcurrentOptions).attrs]
    /\ UNCHANGED <<redactVars, lambda, logging, callVars, decodeVars, setup>>

\* the original fetch of call c resolves and the body of the clone is read
ConcurrentFetchResolve(c) ==
    /\ inflight.call[c].pc = "fetching"
    /\ inflight' = [inflight EXCEPT
            !.call[c].pc = "done",
            !.call[c].received = ResponsePayload(c),
            !.call[c].attrs =
                MapMerge(MapMerge(@,
                    ResponseCapture(ConcurrentResponse(c), ConcurrentOptions).attrs),
                    BodyAttribute("response.body",
                        ResponseBodyRead(ConcurrentResponse(c),
                                         ConcurrentOptions.maxBodySize)))]
    /\ UNCHANGED <<redactVars, lambda, logging, callVars, decodeVars, setup>>

NextConcurrent ==
    \E c \in Calls :
        \/ ConcurrentRequestHook(c)
        \/ ConcurrentWrite(c)
        \/ \E withData \in BOOLEAN : ConcurrentEnd(c, withData)
        \/ \E flowing \in {"null", "false", "true"} : ConcurrentResponseHook(c, flowing)
        \/ ConcurrentResponseData(c)
        \/ ConcurrentResponseEnd(c)
        \/ ConcurrentFetchCall(c)
        \/ ConcurrentFetchResolve(c)

SpecConcurrent == InitConcurrent /\ [][NextConcurrent]_vars

(***************************************************************************)
(* SpecInbound: requestHook of the BetterHttp instrumentation for an       *)
(* inbound request, an IncomingMessage (http.ts 355-427).                  *)
(***************************************************************************)
\* a plugin for inbound requests: shouldParseRequest(request) and whether it
\* has a parseIncommingMessage method
InboundPlugin(name, matches, parses) ==
    [name |-> name, matches |-> matches, captureBody |-> FALSE, parses |-> parses]

InboundPluginLists ==
    { <<>>,
      <<InboundPlugin("vercel", FALSE, TRUE)>>,
      <<InboundPlugin("vercel", FALSE, TRUE), InboundPlugin("stripe", TRUE, TRUE)>>,
      <<InboundPlugin("custom", TRUE, FALSE)>>,
      <<InboundPlugin("custom", FALSE, FALSE), InboundPlugin("vercel", FALSE, TRUE)>> }

InboundRequests ==
    { [url |-> "/api/users", headers |-> <<Header("authorization", TokenSub)>>],
      [url |-> "/", headers |-> <<>>],
      [url |-> "/api/hook", headers |-> <<Header("content-type", "application/json")>>] }

InitInbound ==
    /\ adapter = "http-server"
    /\ options \in [captureHeaders : BOOLEAN, captureBody : BOOLEAN,
                    plugins : InboundPluginLists, requestHook : BOOLEAN]
    /\ request \in InboundRequests
    /\ response = NoResponse
    /\ fault = "none"
    /\ span = [NoSpan EXCEPT !.started = TRUE]
    /\ pc = "requestHook"
    /\ reqTap = NoTap
    /\ resTap = NoTap
    /\ transport = <<>>
    /\ doneCalls = 0
    /\ outcome = Pending
    /\ issued = <<>>
    /\ RedactIdle
    /\ DecodeIdle
    /\ LambdaIdle
    /\ LoggingIdle
    /\ SetupIdle
    /\ ConcurrentIdle

\* the attributes set for the plugin found: its name and what its
\* parseIncommingMessage returns, flattened
InboundAttributes(plugin, req) ==
    ("http.plugin.name" :> plugin.name)
        @@ (IF plugin.parses THEN "http.target" :> req.url ELSE EmptyMap)

\* requestHook(span, request) for an IncomingMessage: plugin.name of the
\* plugin found is read whether or not one was found, and reading it of
\* undefined throws a TypeError; doneCalls counts the calls of
\* options.requestHook
InboundRequestHook ==
    /\ adapter = "http-server"
    /\ pc = "requestHook"
    /\ \E found \in {FindPlugin(options.plugins)} :
        IF found.found
        THEN /\ span' = SetAttributes(SetAttributes(span, Provenance("better-http")),
                                      InboundAttributes(found.plugin, request))
             /\ doneCalls' = IF options.requestHook THEN 1 ELSE 0
             /\ outcome' = [kind |-> "returned"]
        ELSE /\ span' = SetAttributes(span, Provenance("better-http"))
             /\ doneCalls' = 0
             /\ outcome' = [kind |-> "threw", value |-> "TypeError"]
    /\ pc' = "done"
    /\ UNCHANGED <<adapter, options, request, response, fault, reqTap, resTap,
                   transport, issued>>
    /\ UNCHANGED <<redactVars, lambda, logging, decodeVars, setup, inflight>>

NextInbound == InboundRequestHook

SpecInbound == InitInbound /\ [][NextInbound]_vars

(***************************************************************************)
(* SpecLambda: one Lambda invocation of a given kind (service):            *)
(* extractContext on its event, then injectContextToResponse on the result *)
(* of the handler, then extractContext of the next step on that result     *)
(* (src/src/lambda/propation.ts).                                          *)
(***************************************************************************)
\* traceparent values, each with whether it is a valid W3C traceparent and,
\* written by hand, its 2nd and 3rd dash-separated fields and the number
\* its 4th field denotes
Traceparent(text, valid, traceId, spanId, traceFlags) ==
    [text |-> text, valid |-> valid, traceId |-> traceId, spanId |-> spanId,
     traceFlags |-> traceFlags]
Traceparents ==
    { Traceparent("00-0af7651916cd43dd8448eb211c80319c-b7ad6b7169203331-01", TRUE,
                  "0af7651916cd43dd8448eb211c80319c", "b7ad6b7169203331", "1"),
      Traceparent("00-4bf92f3577b34da6a3ce929d0e0e4736-00f067aa0ba902b7-00", TRUE,
                  "4bf92f3577b34da6a3ce929d0e0e4736", "00f067aa0ba902b7", "0"),
      Traceparent("xyz", FALSE, "undefined", "undefined", "NaN") }
TraceparentA == "00-0af7651916cd43dd8448eb211c80319c-b7ad6b7169203331-01"
TraceparentB == "00-4bf92f3577b34da6a3ce929d0e0e4736-00f067aa0ba902b7-00"

\* an element of a list event, or an object event: null, or an object with
\* what it has at _kubiks.traceparent (own), Payload._kubiks.traceparent
\* (payload) and _kubiks._kubiks.traceparent (nested), "" where it has
\* nothing; carries is, written by hand, the traceparent the element carries
Element(own, payload, nested, carries) ==
    [isNull |-> FALSE, own |-> own, payload |-> payload, nested |-> nested,
     carries |-> carries]
Elements ==
    { [Element("", "", "", "") EXCEPT !.isNull = TRUE],
      Element("", "", "", ""),
      Element(TraceparentA, "", "", TraceparentA),
      Element("", TraceparentB, "", TraceparentB),
      Element("", "", TraceparentA, TraceparentA),
      Element(TraceparentB, TraceparentA, "", TraceparentB),
      Element("xyz", "", "", "xyz") }

\* an invocation event: a list of elements, one object, an HTTP event with
\* headers.traceparent, or an SNS event with the traceparent message
\* attribute ("" where absent)
Event(shape, elements, element, traceparent) ==
    [shape |-> shape, elements |-> elements, element |-> element,
     traceparent |-> traceparent]
PlainElement == Element("", "", "", "")
RECURSIVE Lists(_)
Lists(n) ==
    IF n = 0 THEN {<<>>}
    ELSE Lists(n - 1) \cup { Append(l, e) : l \in { k \in Lists(n - 1) : Len(k) = n - 1 },
                                            e \in Elements }
ListEvents == { Event("list", l, PlainElement, "") : l \in Lists(MaxElements) }
ObjectEvents == { Event("object", <<>>, e, "") : e \in Elements \ {e \in Elements : e.isNull} }
HttpEvents == { Event("http", <<>>, PlainElement, t) : t \in {"", TraceparentA, "xyz"} }
SnsEvents == { Event("sns", <<>>, PlainElement, t) : t \in {"", TraceparentB} }

HttpKinds == {"api", "api-gateway", "api-gateway-v2", "function-url"}
OtherKinds == {"sqs", "API", "step-functions"}
Invocations ==
    (HttpKinds \X HttpEvents) \cup ({"sns"} \X SnsEvents)
        \cup ({"step-function"} \X (ListEvents \cup ObjectEvents))
        \cup (OtherKinds \X (ListEvents \cup ObjectEvents \cup HttpEvents \cup SnsEvents))

\* contexts: ROOT_CONTEXT, context.active(), what a custom callback returns,
\* and a context with the remote span context of a traceparent
ROOT_CONTEXT == [kind |-> "root", traceId |-> "", spanId |-> "", traceFlags |-> ""]
ActiveContext == [ROOT_CONTEXT EXCEPT !.kind = "active"]
CustomContext == [ROOT_CONTEXT EXCEPT !.kind = "custom"]
NoContext == [ROOT_CONTEXT EXCEPT !.kind = "none"]

\* parts[i] of the array split returned, undefined past its end
Field(parts, i) == IF i <= Len(parts) THEN parts[i] ELSE "undefined"

\* Number(x) as it prints, for a string of digits, '' and anything else
Number(text) ==
    IF text = "" THEN "0"
    ELSE IF DigitsEnd(text, 1) = Len(text) + 1 THEN parseInt(text)
    ELSE "NaN"

IsHex(text, length) ==
    /\ Len(text) = length
    /\ \A i \in 1..Len(text) : includes("0123456789abcdef", Char(text, i))

\* propagation.extract(context.active(), { traceparent }, getter) with the
\* W3C propagator: the remote span context of a well-formed traceparent,
\* the context unchanged otherwise
PropagationExtract(parts) ==
    IF /\ Len(parts) = 4
       /\ parts[1] = "00"
       /\ IsHex(parts[2], 32)
       /\ IsHex(parts[3], 16)
       /\ IsHex(parts[4], 2)
    THEN [kind |-> "remote", traceId |-> parts[2], spanId |-> parts[3],
          traceFlags |-> Number(parts[4])]
    ELSE ActiveContext
propagationExtract(traceparent) == PropagationExtract(split(traceparent, "-"))

\* parent._kubiks?.traceparent || parent.Payload?._kubiks?.traceparent
\*     || parent._kubiks?._kubiks?.traceparent
FirstTraceparent(parent) ==
    IF parent.own # "" THEN parent.own
    ELSE IF parent.payload # "" THEN parent.payload
    ELSE parent.nested

\* the link the map callback returns for a traceparent
LinkOf(parts) ==
    [traceId |-> Field(parts, 2), spanId |-> Field(parts, 3),
     traceFlags |-> Number(Field(parts, 4))]

\* event.map(...).filter(el => el)
RECURSIVE Links(_)
Links(elements) ==
    IF Len(elements) = 0 THEN <<>>
    ELSE IF FirstTraceparent(elements[1]) = "" THEN Links(Tail(elements))
    ELSE <<LinkOf(split(FirstTraceparent(elements[1]), "-"))>> \o Links(Tail(elements))

Extracted(parent, hasLinks, links) ==
    [threw |-> FALSE, parent |-> parent, hasLinks |-> hasLinks, links |-> links]
NotExtracted == [Extracted(NoContext, FALSE, <<>>) EXCEPT !.threw = TRUE]

\* the value the switch statement compares with its case labels
switchOn_IgnoreCase(service) == toLowerCase(service)
switchOn(service) == service

\* extractContext(service, event, cb); cb is "none" (no callback), "void"
\* (the callback returns nothing) or "result" (it returns a result). Reading
\* _kubiks of a null element throws a TypeError
extractContext(service, event, cb) ==
    IF cb = "result" THEN Extracted(CustomContext, FALSE, <<>>)
    ELSE IF switchOn(service) \in HttpKinds \cup {"sns"}
    THEN Extracted(propagationExtract(event.traceparent), FALSE, <<>>)
    ELSE IF switchOn(service) = "step-function"
    THEN IF event.shape = "list"
         THEN IF \E i \in 1..Len(event.elements) : event.elements[i].isNull
              THEN NotExtracted
              ELSE Extracted(NoContext, TRUE, Links(event.elements))
         ELSE Extracted(propagationExtract(FirstTraceparent(event.element)), FALSE, <<>>)
    ELSE Extracted(ROOT_CONTEXT, FALSE, <<>>)

\* the span of the invocation and its traceparent
InvocationSpan ==
    [traceId |-> "5b8aa5a2d2c872e8321cf37308d69df2", spanId |-> "051581bf3cb55c13"]
SpanTraceparent == "00-5b8aa5a2d2c872e8321cf37308d69df2-051581bf3cb55c13-01"

\* the fields the configured propagator writes for the span, in order: the
\* W3C trace context propagator alone, with a tracestate, and composed with
\* the baggage propagator
Written(key, value) == [key |-> key, value |-> value]
PropagatorFields ==
    { <<Written("traceparent", SpanTraceparent)>>,
      <<Written("traceparent", SpanTraceparent), Written("tracestate", "vendor=1")>>,
      <<Written("traceparent", SpanTraceparent), Written("baggage", "user=7")>>,
      <<Written("traceparent", SpanTraceparent), Written("tracestate", "vendor=1"),
        Written("baggage", "user=7")>> }

\* a result payload: its data and its _kubiks field, a map or absent
Result(data, present, fields) ==
    [data |-> data, _kubiks |-> [present |-> present, fields |-> fields]]
Results ==
    { Result("{\"ok\":true}", FALSE, EmptyMap),
      Result("{\"n\":1}", TRUE, "traceparent" :> TraceparentB) }

\* set(carrier, key, value) { carrier['_kubiks'] = { [key]: value } }
set(carrier, field) ==
    [carrier EXCEPT !._kubiks = [present |-> TRUE, fields |-> field.key :> field.value]]

\* propagation.inject(ctx, result, setter): the propagator calls set once for
\* each field it writes
RECURSIVE inject(_, _)
inject(carrier, fields) ==
    IF Len(fields) = 0 THEN carrier
    ELSE inject(set(carrier, fields[1]), Tail(fields))

injectContextToResponse_AnyKind(service, result, fields) == inject(result, fields)
injectContextToResponse(service, result, fields) ==
    IF service = "step-function" THEN inject(result, fields) ELSE result

\* the result of a step as the event of the next step
AsEvent(result) ==
    Event("object", <<>>,
          Element(IF result._kubiks.present /\ "traceparent" \in DOMAIN result._kubiks.fields
                  THEN result._kubiks.fields["traceparent"] ELSE "",
                  "", "", ""),
          "")

NoInvocation(service, event, cb) ==
    [service |-> service, event |-> event, cb |-> cb, pc |-> "extract",
     extracted |-> NotExtracted, returned |-> Result("", FALSE, EmptyMap),
     result |-> Result("", FALSE, EmptyMap), resumed |-> NotExtracted]

InitLambda ==
    /\ \E inv \in Invocations, cb \in {"none", "void", "result"} :
            lambda = NoInvocation(inv[1], inv[2], cb)
    /\ RedactIdle
    /\ CallIdle
    /\ DecodeIdle
    /\ LoggingIdle
    /\ SetupIdle
    /\ ConcurrentIdle

\* the wrapper calls extractContext(service, event, cb)
Extract ==
    /\ lambda.pc = "extract"
    /\ \E res \in {extractContext(lambda.service, lambda.event, lambda.cb)} :
        lambda' = [lambda EXCEPT !.extracted = res,
                                 !.pc = IF res.threw THEN "failed" ELSE "handler"]
    /\ UNCHANGED <<redactVars, callVars, decodeVars, setup, inflight, logging>>

\* the handler returns result and the wrapper calls
\* injectContextToResponse(service, result, span)
Respond(result, fields) ==
    /\ lambda.pc = "handler"
    /\ lambda' = [lambda EXCEPT
            !.returned = result,
            !.result = injectContextToResponse(lambda.service, result, fields),
            !.pc = "responded"]
    /\ UNCHANGED <<redactVars, callVars, decodeVars, setup, inflight, logging>>

\* the next step of the state machine is invoked with the result as its
\* event and calls extractContext('step-function', event)
Resume ==
    /\ lambda.pc = "responded"
    /\ lambda.service = "step-function"
    /\ lambda' = [lambda EXCEPT
            !.resumed = extractContext("step-function", AsEvent(lambda.result), "none"),
            !.pc = "resumed"]
    /\ UNCHANGED <<redactVars, callVars, decodeVars, setup, inflight, logging>>

NextLambda ==
    \/ Extract
    \/ \E result \in Results, fields \in PropagatorFields : Respond(result, fields)
    \/ Resume

SpecLambda == InitLambda /\ [][NextLambda]_vars

(***************************************************************************)
(* SpecLogging: the handling of one call the application makes, of a       *)
(* console method or of fetch, with the console patched by patchConsole    *)
(* (console-logger.ts 553-643) or not and the global fetch replaced by the *)
(* FetchInterceptor (fetch-interceptor.ts 35-42) or not.  The calls are    *)
(* synchronous: the wrapper of a console method calls exporter.export,     *)
(* whose body runs up to its await of fetch(this.url, ...), and the        *)
(* wrapper of fetch calls console.debug as its first statement.            *)
(*                                                                         *)
(* logging.stack is the call stack, innermost frame last; the model keeps  *)
(* its MaxDepth innermost frames, and counts up to MaxCount.               *)
(***************************************************************************)
ConsoleMethods == {"log", "error", "warn", "info", "debug"}

Frame(fn, method) == [fn |-> fn, method |-> method, pc |-> "start"]

\* a call pushes the frame of the callee
Push(stack, frame) ==
    IF Len(stack) < MaxDepth THEN Append(stack, frame)
    ELSE Append(Tail(stack), frame)

Pop(stack) == SubSeq(stack, 1, Len(stack) - 1)

Top(stack) == stack[Len(stack)]

At(stack, at) == [stack EXCEPT ![Len(stack)].pc = at]

Count(n) == IF n < MaxCount THEN n + 1 ELSE MaxCount

InitLogging ==
    /\ \E patched \in BOOLEAN, intercepted \in BOOLEAN :
            logging = [patched |-> patched, intercepted |-> intercepted,
                       stage |-> "idle", call |-> "none", stack |-> <<>>,
                       printed |-> 0, records |-> 0, exports |-> 0, sent |-> 0]
    /\ RedactIdle
    /\ CallIdle
    /\ DecodeIdle
    /\ LambdaIdle
    /\ SetupIdle
    /\ ConcurrentIdle

Running(fn, at) ==
    /\ logging.stage = "handling"
    /\ logging.stack # <<>>
    /\ Top(logging.stack).fn = fn
    /\ Top(logging.stack).pc = at

\* the application calls console[method](...)
ConsoleCall(method) ==
    /\ logging.stage = "idle"
    /\ logging' = [logging EXCEPT !.stage = "handling", !.call = method,
                                  !.stack = <<Frame("console", method)>>]
    /\ UNCHANGED <<redactVars, callVars, decodeVars, setup, inflight, lambda>>

\* the application calls fetch(url)
ApplicationFetch ==
    /\ logging.stage = "idle"
    /\ logging' = [logging EXCEPT !.stage = "handling", !.call = "fetch",
                                  !.stack = <<Frame("fetch", "")>>]
    /\ UNCHANGED <<redactVars, callVars, decodeVars, setup, inflight, lambda>>

\* console[method]: the original method when the console is not patched;
\* the wrapper calls it first
Original ==
    /\ Running("console", "start")
    /\ logging' = [logging EXCEPT
            !.printed = Count(@),
            !.stack = At(@, IF logging.patched THEN "record" ELSE "return")]
    /\ UNCHANGED <<redactVars, callVars, decodeVars, setup, inflight, lambda>>

\* the wrapper builds the log record and calls exporter.export([logRecord])
ExportRecord ==
    /\ Running("console", "record")
    /\ logging' = [logging EXCEPT
            !.records = Count(@),
            !.stack = Push(At(@, "return"), Frame("export", ""))]
    /\ UNCHANGED <<redactVars, callVars, decodeVars, setup, inflight, lambda>>

\* SimpleOTLPLogExporter.export: builds the payload and calls the global
\* fetch, awaiting what it returns
Export ==
    /\ Running("export", "start")
    /\ logging' = [logging EXCEPT
            !.exports = Count(@),
            !.stack = Push(At(@, "return"), Frame("fetch", ""))]
    /\ UNCHANGED <<redactVars, callVars, decodeVars, setup, inflight, lambda>>

\* the global fetch: the interceptor's function, whose first statement is
\* console.debug('FetchInterceptor: Intercepted fetch call', ...), or the
\* original
Fetch ==
    /\ Running("fetch", "start")
    /\ logging' =
        IF logging.intercepted
        THEN [logging EXCEPT
                !.stack = Push(At(@, "original"), Frame("console", "debug"))]
        ELSE [logging EXCEPT !.sent = Count(@), !.stack = At(@, "return")]
    /\ UNCHANGED <<redactVars, callVars, decodeVars, setup, inflight, lambda>>

\* the interceptor's function goes on to call the original fetch
OriginalFetch ==
    /\ Running("fetch", "original")
    /\ logging' = [logging EXCEPT !.sent = Count(@), !.stack = At(@, "return")]
    /\ UNCHANGED <<redactVars, callVars, decodeVars, setup, inflight, lambda>>

\* the innermost call returns (an async function: its promise)
Return ==
    /\ logging.stage = "handling"
    /\ logging.stack # <<>>
    /\ Top(logging.stack).pc = "return"
    /\ logging' = [logging EXCEPT
            !.stack = Pop(@),
            !.stage = IF Len(logging.stack) = 1 THEN "returned" ELSE @]
    /\ UNCHANGED <<redactVars, callVars, decodeVars, setup, inflight, lambda>>

NextLogging ==
    \/ \E method \in ConsoleMethods : ConsoleCall(method)
    \/ ApplicationFetch
    \/ Original
    \/ ExportRecord
    \/ Export
    \/ Fetch
    \/ OriginalFetch
    \/ Return

\* a call in progress takes its next step
SpecLogging == InitLogging /\ [][NextLogging]_vars /\ WF_vars(NextLogging)

(***************************************************************************)
(* Properties of the adapters (Spec) and of the fetch interceptor          *)
(* (FairSpec).                                                             *)
(***************************************************************************)
\* the values the calls give to headers with a sensitive name
SecretValues == { TokenSub, "k1", "k2", "sid=1", "Basic dXNlcjpwYXNz" }

IsHeaderAttribute(key) ==
    StartsWith(key, "request.headers.") \/ StartsWith(key, "response.headers.")

\* C1: with whichever adapter, no request.headers.* or response.headers.*
\* attribute of the span holds the original value of a sensitive header.
C1_HeadersRedacted ==
    \A key \in DOMAIN span.attrs :
        IsHeaderAttribute(key) => span.attrs[key] \notin SecretValues

RequestSent == adapter = "http" /\ pc \in {"sent", "streaming", "closed", "aborted"}

\* C4: once a tapped request has been ended, the capture callback of
\* getClientRequestBody has been invoked exactly once.
C4_CaptureOnce ==
    (RequestSent /\ reqTap.installed) => Len(reqTap.calls) = 1

\* C5: once the response stream of an outbound call has ended or failed, the
\* continuation cb of responseHook has been invoked exactly once.
C5_ContinuationOnce ==
    (adapter = "http" /\ pc \in {"closed", "aborted"}) => doneCalls = 1

\* C6: every span the fetch interceptor starts is eventually ended.
C6_SpanEventuallyEnded ==
    (adapter = "fetch" /\ span.started) ~> (span.ended > 0)

FetchSettled == adapter = "fetch" /\ pc \in {"resolved", "rejected"}

\* C7: the span of an intercepted fetch is never ended twice, is not ended
\* while the call is in progress, and has been ended exactly once when the
\* call has resolved or rejected, a throwing capture step included.
C7_EndedExactlyOnce ==
    adapter = "fetch" =>
        /\ span.ended <= 1
        /\ (pc \in {"call", "fetching", "reading"} => span.ended = 0)
        /\ (FetchSettled => span.started /\ span.ended = 1)

\* a capture step threw before the real fetch: the span is ended once
C7_Witness ==
    /\ adapter = "fetch"
    /\ pc = "rejected"
    /\ transport = <<>>
    /\ span.ended = 1

RealFetchRejected == adapter = "fetch" /\ response.arrived /\ response.rejected

\* C8 as stated: when the real fetch rejects with E the span has status ERROR
\* with E's message, and the intercepted fetch rejects with E.
C8_MessageOfAnyRejection ==
    RealFetchRejected =>
        /\ span.status = "ERROR"
        /\ span.message = response.error.message
        /\ outcome = [kind |-> "rejected", value |-> response.error]

\* C8: when the real fetch rejects with E the span has status ERROR, with E's
\* message when E is an Error and with 'Unknown error' when it is not, and
\* the intercepted fetch rejects with E itself.
C8_RejectionReported ==
    RealFetchRejected =>
        /\ span.status = "ERROR"
        /\ \A e \in Rejections :
              response.error = e =>
                  /\ (e.isError => span.message = e.message)
                  /\ (~e.isError => span.message = "Unknown error")
        /\ outcome.kind = "rejected"
        /\ outcome.value = response.error

\* the real fetch rejected with a value that is not an Error
C8_Witness ==
    /\ RealFetchRejected
    /\ ~response.error.isError
    /\ span.message = "Unknown error"
    /\ outcome.kind = "rejected"

\* C9: the caller's fetch is rejected only with what the real fetch rejected
\* with, and an ended request has had its end() passed to the original end.
C9_TelemetryNeverReachesCaller ==
    /\ (adapter = "fetch" /\ outcome.kind = "rejected") =>
            /\ Len(transport) = 1
            /\ response.arrived /\ response.rejected
            /\ outcome.value = response.error
    /\ RequestSent => transport[Len(transport)].op = "end"

\* C10: a call of the BetterHttp hooks or of the fetch interceptor to an
\* ignored host has neither request.body nor response.body on its span.
C10_IgnoredHostsNoBody ==
    (adapter \in {"http", "fetch"} /\ HostInfo(request.host).ignored) =>
        /\ "request.body" \notin DOMAIN span.attrs
        /\ "response.body" \notin DOMAIN span.attrs

\* C15: the calls a tapped request made to the original write and end are
\* the calls the application made, in order and with the same arguments.
C15_TransportUnchanged ==
    (adapter = "http" /\ reqTap.installed) => transport = issued

\* a body attribute that is a diagnostic object: _truncated, _type or _error
IsDiagnostic(text) ==
    \/ StartsWith(text, "{\"_truncated\":true,")
    \/ StartsWith(text, "{\"_type\":")
    \/ StartsWith(text, "{\"_error\":")

\* C11: a request or response body larger than the configured maxBodySize is
\* recorded as a diagnostic object or not at all, never as its text or its
\* parsed structure (the fetch interceptor and the undici hooks have a
\* maxBodySize).
C11_OverBudgetNotDecoded ==
    /\ ( /\ adapter \in {"fetch", "undici"}
         /\ "request.body" \in DOMAIN span.attrs
         /\ Len(request.body.text) > options.maxBodySize )
          => IsDiagnostic(span.attrs["request.body"])
    /\ ( /\ adapter = "fetch"
         /\ "response.body" \in DOMAIN span.attrs
         /\ Len(response.text) > options.maxBodySize )
          => IsDiagnostic(span.attrs["response.body"])

\* a content-type header (any letter case of the name) with a binary marker
HasBinaryType(headers) ==
    \E i \in 1..Len(headers) :
        /\ toLowerCase(headers[i].name) = "content-type"
        /\ \E k \in 1..Len(binaryTypes) :
              includes(toLowerCase(headers[i].value), binaryTypes[k])

\* C12: a body whose content type has a binary marker is recorded as a
\* diagnostic object or not at all, never as its text, on the request and on
\* the response side of every capture path.
C12_BinaryNotDecoded ==
    /\ ( /\ adapter = "http" /\ HasBinaryType(request.headers)
         /\ "request.body" \in DOMAIN span.attrs )
          => IsDiagnostic(span.attrs["request.body"])
    /\ ( /\ adapter = "fetch" /\ HasBinaryType(request.headers.entries)
         /\ "request.body" \in DOMAIN span.attrs )
          => IsDiagnostic(span.attrs["request.body"])
    /\ ( /\ adapter = "undici" /\ HasBinaryType(extractHeaders(request.headers))
         /\ "request.body" \in DOMAIN span.attrs )
          => IsDiagnostic(span.attrs["request.body"])
    /\ ( /\ adapter \in {"http", "fetch"} /\ HasBinaryType(response.headers)
         /\ "response.body" \in DOMAIN span.attrs )
          => IsDiagnostic(span.attrs["response.body"])

\* C13: a fetch that resolved with a status outside 200..299 leaves the span
\* with status ERROR and a message; status OK goes with a 2xx status only.
C13_NonSuccessIsError ==
    (adapter = "fetch" /\ pc = "resolved") =>
        IF response.status \in 200..299
        THEN span.status = "OK"
        ELSE span.status = "ERROR" /\ span.message # ""

\* the text of everything the application gave to write and end, in order
RECURSIVE WrittenText(_)
WrittenText(calls) ==
    IF Len(calls) = 0 THEN ""
    ELSE calls[1].data.text \o WrittenText(Tail(calls))

\* C25: once a tapped request with a non-empty body has ended, the last body
\* given to the capture callback is the concatenation of all the data written
\* and ended, in order, and request.body is its decoding.
C25_WholeBodyCaptured ==
    ( /\ adapter = "http"
      /\ reqTap.installed
      /\ \E i \in 1..Len(issued) : issued[i].op = "end"
      /\ WrittenText(issued) # "" ) =>
        /\ Len(reqTap.calls) > 0
        /\ reqTap.calls[Len(reqTap.calls)] = WrittenText(issued)
        /\ fault = "none" =>
            /\ "request.body" \in DOMAIN span.attrs
            /\ span.attrs["request.body"] =
                    AttributeText(_parseBodySafe(WrittenText(issued), request.headers))

\* C28: requestHook for an inbound request returns without throwing and has
\* called the user's requestHook, if one is configured, whether or not a
\* plugin matches.
C28_InboundHookCompletes ==
    (adapter = "http-server" /\ pc = "done") =>
        /\ outcome.kind = "returned"
        /\ options.requestHook => doneCalls = 1

\* C30: with header capture disabled no adapter sets a request.headers.*,
\* response.headers.* or token.* attribute.
C30_NoHeadersWhenDisabled ==
    (adapter \in {"http", "undici", "fetch"} /\ ~options.captureHeaders) =>
        \A key \in DOMAIN span.attrs :
            ~IsHeaderAttribute(key) /\ ~StartsWith(key, "token.")

\* with header capture disabled a call has run to a captured request body
\* and a response that has a set-cookie header
C30_Witness ==
    /\ adapter = "http"
    /\ ~options.captureHeaders
    /\ "request.body" \in DOMAIN span.attrs
    /\ response.arrived
    /\ \E i \in 1..Len(response.headers) : response.headers[i].name = "set-cookie"

\* the attributes of the request capture and those of the response capture
RequestPart(attrs) ==
    [k \in { k \in DOMAIN attrs : Len(k) > 8 /\ SubSeq(k, 1, 8) = "request." } |-> attrs[k]]
ResponsePart(attrs) ==
    [k \in { k \in DOMAIN attrs : \/ Len(k) > 9 /\ SubSeq(k, 1, 9) = "response."
                                  \/ k \in {"http.status_code", "http.status_text"} }
        |-> attrs[k]]

\* C18: within one intercepted fetch, the request attributes are complete
\* (or the capture has thrown) when the real fetch is called: no later step
\* changes them, and the response attributes are set only after that call.
C18_RequestBeforeResponse ==
    [][ /\ pc # "call" => RequestPart(span'.attrs) = RequestPart(span.attrs)
        /\ ResponsePart(span'.attrs) # ResponsePart(span.attrs) =>
                /\ pc \in {"fetching", "reading"}
                /\ Len(transport) = 1 ]_vars

\* a fetch whose request body and response body were both captured
C18_Witness ==
    /\ adapter = "fetch"
    /\ pc = "resolved"
    /\ "request.body" \in DOMAIN span.attrs
    /\ "response.body" \in DOMAIN span.attrs

(***************************************************************************)
(* Properties of the Lambda context propagation (SpecLambda).              *)
(***************************************************************************)
TraceparentInfo(text) == CHOOSE t \in Traceparents : t.text = text

\* the links expected for a list of elements: one for each element that
\* carries a traceparent, in order, with the fields of that traceparent
RECURSIVE ExpectedLinks(_)
ExpectedLinks(elements) ==
    IF Len(elements) = 0 THEN <<>>
    ELSE (IF elements[1].carries = "" THEN <<>>
          ELSE <<[traceId |-> TraceparentInfo(elements[1].carries).traceId,
                  spanId |-> TraceparentInfo(elements[1].carries).spanId,
                  traceFlags |-> TraceparentInfo(elements[1].carries).traceFlags]>>)
         \o ExpectedLinks(Tail(elements))

\* C21: extractContext('step-function', event) for a list event returns one
\* link for each element carrying a traceparent, skipping the others, with
\* the 2nd, 3rd and 4th fields of that traceparent.
C21_LinkPerTraceparent ==
    ( /\ lambda # <<>>
      /\ lambda.pc # "extract"
      /\ lambda.service = "step-function"
      /\ lambda.event.shape = "list"
      /\ lambda.cb # "result" ) =>
        /\ ~lambda.extracted.threw
        /\ lambda.extracted.hasLinks
        /\ lambda.extracted.links = ExpectedLinks(lambda.event.elements)

\* C22: injectContextToResponse leaves the result unchanged for every kind
\* but 'step-function'.
C22_OnlyStepFunctionInjects ==
    ( /\ lambda # <<>>
      /\ lambda.pc = "responded"
      /\ lambda.service # "step-function" ) =>
        lambda.result = lambda.returned

\* the result of an HTTP-like invocation has been through
\* injectContextToResponse
C22_Witness ==
    /\ lambda # <<>>
    /\ lambda.pc = "responded"
    /\ lambda.service = "api-gateway"
    /\ lambda.result = Result("{\"ok\":true}", FALSE, EmptyMap)

\* C23: for a kind that is none of the HTTP-like, sns and step-function
\* kinds, extractContext returns the root context as parent and no links,
\* unless a custom callback supplied the result.
C23_UnknownKindIsRoot ==
    ( /\ lambda # <<>>
      /\ lambda.pc # "extract"
      /\ lambda.service \notin HttpKinds \cup {"sns", "step-function"}
      /\ lambda.cb # "result" ) =>
        lambda.extracted = Extracted(ROOT_CONTEXT, FALSE, <<>>)

\* an invocation of kind 'API' whose event has a traceparent header has
\* been given the root context
C23_Witness ==
    /\ lambda # <<>>
    /\ lambda.pc = "handler"
    /\ lambda.service = "API"
    /\ lambda.event.shape = "http"
    /\ lambda.event.traceparent = TraceparentA
    /\ lambda.cb = "void"
    /\ lambda.extracted.parent = ROOT_CONTEXT

\* C26: the result written by injectContextToResponse('step-function')
\* carries the span's traceparent at _kubiks.traceparent, whatever fields
\* the propagator writes, and extractContext of the next step yields a
\* parent with the span's trace id and span id.
C26_InjectedThenExtracted ==
    (lambda # <<>> /\ lambda.pc = "resumed") =>
        /\ lambda.result._kubiks.present
        /\ "traceparent" \in DOMAIN lambda.result._kubiks.fields
        /\ lambda.result._kubiks.fields["traceparent"] = SpanTraceparent
        /\ lambda.resumed.parent.kind = "remote"
        /\ lambda.resumed.parent.traceId = InvocationSpan.traceId
        /\ lambda.resumed.parent.spanId = InvocationSpan.spanId

(***************************************************************************)
(* Properties of the console logging (SpecLogging).                        *)
(***************************************************************************)
\* C27: with the console patched and fetch intercepted, the handling of one
\* console call returns: the fetch of the log exporter and the console.debug
\* of the fetch interceptor do not go on making log records for ever.
C27_ConsoleCallReturns ==
    (logging # <<>> /\ logging.patched /\ logging.intercepted
        /\ logging.stage = "handling" /\ logging.call \in ConsoleMethods)
        ~> (logging.stage = "returned")

(***************************************************************************)
(* Properties of the setup (SpecSetup, SpecToggle).                                   *)
(***************************************************************************)
\* C14: the global fetch interceptor is never installed while an
\* EnhancedUndiciInstrumentation is registered.
C14_OneFetchStrategy ==
    ~ ( /\ setup.fetch > 0
        /\ \E i \in 1..Len(setup.registered) :
              setup.registered[i].kind = "EnhancedUndici" )

DefaultsApplied(given, effective) ==
    \A key \in DOMAIN Defaults :
        (key \notin DOMAIN given \/ given[key] = "undefined") =>
            effective[key] = Defaults[key]

\* C29: the fetch interceptor and every EnhancedUndiciInstrumentation work
\* with the default of each option that was left undefined.
C29_DefaultsForUndefined ==
    /\ setup.instance.exists =>
            DefaultsApplied(setup.instance.given, setup.instance.options)
    /\ \A i \in 1..Len(setup.held) :
            setup.held[i].kind = "EnhancedUndici" =>
                DefaultsApplied(setup.held[i].given, setup.held[i].options)

(***************************************************************************)
(* Properties of concurrent calls (SpecConcurrent).                        *)
(***************************************************************************)
\* the texts call c can have sent, or received, in full or so far: the
\* concatenations of the first chunks of the payload
Prefixes(payload) == { Concat(SubSeq(payload, 1, k)) : k \in 0..Len(payload) }

\* the response tap of call c has been attached
Tapped(call) == call.kind = "http" /\ call.pc \in {"streaming", "done"}

\* C16: once getClientResponseBody has attached its tap to a response, the
\* response's readableFlowing equals its value before the tap was attached.
C16_FlowStateKept ==
    \A c \in Calls :
        Tapped(inflight.call[c]) =>
            inflight.call[c].readableFlowing = inflight.call[c].originalState

\* a response that was not flowing has been tapped
C16_Witness ==
    \E c \in Calls :
        /\ Tapped(inflight.call[c])
        /\ inflight.call[c].originalState = "null"
        /\ inflight.call[c].readableFlowing = "null"

\* the bodies and attributes of call c come from call c
OwnCapture(c, call) ==
    /\ \A i \in 1..Len(call.bodies) :
        /\ call.bodies[i].key = "request.body" =>
                call.bodies[i].body \in Prefixes(Payload(c)) \ {""}
        /\ call.bodies[i].key = "response.body" =>
                call.bodies[i].body \in Prefixes(ResponsePayload(c)) \ {""}
    /\ "request.body" \in DOMAIN call.attrs =>
            /\ call.attrs["request.body"] \in Prefixes(Payload(c)) \ {""}
            /\ call.kind = "http" =>
                call.attrs["request.body"] = Concat(call.wrote)
    /\ "response.body" \in DOMAIN call.attrs =>
            call.attrs["response.body"] = Concat(call.received)

\* C17: with several calls in flight and their steps interleaved, every body
\* given to a call's capture callback is made of that call's own chunks in
\* order, and the body attributes of its span are those of its own bodies.
C17_NoSharing == \A c \in Calls : OwnCapture(c, inflight.call[c])

\* two http calls have interleaved their writes and both were captured
C17_Witness ==
    \E c, d \in Calls :
        /\ c # d
        /\ inflight.call[c].kind = "http" /\ inflight.call[d].kind = "http"
        /\ Len(inflight.call[d].wrote) = 1 /\ inflight.call[d].pc = "writing"
        /\ "request.body" \in DOMAIN inflight.call[c].attrs
        /\ inflight.call[c].pc = "done"
        /\ "response.body" \in DOMAIN inflight.call[c].attrs

(***************************************************************************)
(* Properties of the body decoders (SpecDecode).                           *)
(***************************************************************************)
\* the value JSON.parse returns for a valid text, the text itself otherwise
JsonOrText(body) ==
    IF body.valid
    THEN [isString |-> body.isString,
          text |-> IF body.isString THEN body.json ELSE ""]
    ELSE [isString |-> TRUE, text |-> body.text]

\* what a decoder returned, as a string or as the JSON.stringify of a value
Returned19(value) ==
    [isString |-> value.isString,
     text |-> IF value.isString THEN value.text ELSE ""]

GivenJson == dResult.done /\ includes(dInput.contentType, "application/json")

C20_RepeatedKeysKept ==
    ( /\ dResult.done
      /\ dInput.contentType = "application/x-www-form-urlencoded"
      /\ dInput.body.form # "" )
        => ~dResult.value.isString /\ dResult.value.json = dInput.body.form

(***************************************************************************)
(* Properties of the redactor (SpecRedact).                                *)
(***************************************************************************)
\* C2: redactSensitiveHeaders returns a map with the keys of its input, in
\* which every header whose lower-cased name contains a sensitive fragment
\* has the value '[REDACTED]' and every other header has its input value.
C2_RedactionExact ==
    rResult.done =>
        LET out == rResult.redactedHeaders
        IN  /\ Len(out) = Len(rHeaders)
            /\ \A i \in 1..Len(rHeaders) :
                /\ out[i].name = rHeaders[i].name
                /\ out[i].value = IF NameInfo(rHeaders[i].name).sensitive
                                  THEN REDACTED
                                  ELSE rHeaders[i].value

\* a mixed-case sensitive header and a non-sensitive header carrying a
\* credential-shaped value have been through the redactor
C2_Witness ==
    /\ rResult.done
    /\ \E i, j \in 1..Len(rHeaders) :
        /\ rHeaders[i].name = "X-Api-Key"
        /\ rHeaders[j].name = "content-type"
        /\ rHeaders[j].value = TokenSub

\* the non-empty headers whose name contains 'authorization'
AuthIndexes ==
    { i \in 1..Len(rHeaders) :
        NameInfo(rHeaders[i].name).auth /\ rHeaders[i].value # "" }

\* C3: a non-empty authorization header (any letter case) whose value, after
\* an optional 'Bearer ' prefix, has three segments with a base64url JSON
\* object in the middle yields one token.<key> attribute per scalar claim and
\* none for a nested, array or null claim; a value of 2 or 4 segments or with
\* an undecodable middle segment yields no token.* attribute; the call returns.
C3_ClaimExtraction ==
    rResult.done =>
        /\ \A i \in AuthIndexes :
              CredentialInfo(rHeaders[i].value).shape = "jwt" =>
                 /\ DOMAIN CredentialInfo(rHeaders[i].value).claims
                       \subseteq DOMAIN rResult.jwtClaims
                 /\ AuthIndexes = {i} =>
                       rResult.jwtClaims = CredentialInfo(rHeaders[i].value).claims
        /\ ( /\ AuthIndexes # {}
             /\ \A i \in AuthIndexes :
                   CredentialInfo(rHeaders[i].value).shape = "malformed" )
              => rResult.jwtClaims = EmptyMap

\* an upper-case authorization header with scalar, nested, array and null
\* claims, next to a sensitive non-authorization header holding a token
C3_Witness ==
    /\ rResult.done
    /\ \E i, j \in 1..Len(rHeaders) :
        /\ rHeaders[i] = Header("AUTHORIZATION", TokenMixed)
        /\ rHeaders[j] = Header("Set-Cookie", TokenSub)

====
